---- MODULE Spec2Model ----
(***************************************************************************)
(* The HubSpot automation scripts as state machines.  Each behaviour runs  *)
(* one script entry point (prog) against a simulated HTTP server: the      *)
(* server's data is a sequence of pages, each HTTP call is one step whose  *)
(* response status the environment chooses, and time.sleep adds to a       *)
(* simulated clock.  Time is counted in ticks of 1/16 second so that the   *)
(* backoff 2 * 2.5^i of all-touchpoints stays an integer.                  *)
(***************************************************************************)
EXTENDS Integers, Sequences, FiniteSets, Bags, TLC

VARIABLES
    prog,             \* the entry point this behaviour runs
    pc,               \* position in the running function
    fn,               \* the fetcher whose retry loop ran last
    script,           \* statuses the mock server will answer next (<<>>: any)
    server,           \* the server's data: the sizes of its pages, in order
    test_mode,        \* all-touchpoints: the TEST_MODE switch of this run
    attempt,          \* loop counter of the retry loop (i / attempt / retries)
    backoff,          \* the retry loop's backoff variable, in ticks
    slept,            \* ticks slept in the current fetcher call
    calls,            \* HTTP calls issued in the current fetcher call
    hist,             \* responses received in the current fetcher call
    outcome,          \* what the fetcher call gave its caller
    url,              \* the page a link-following loop requests next (0: None)
    params,           \* the query parameters of the next request
    offset,           \* the cursor a cursor-following loop sends next (0: None)
    reqlog,           \* cursors / urls of the page requests issued, in order
    collected,        \* ids of the pages processed (written, extended) so far
    processed_count,  \* records counted by process_contacts_in_batches
    etype,            \* index of the engagement type / batch being fetched
    engagement_ids,   \* get_engagement_ids_for_contact: type -> page ids
    errors,           \* fetcher calls of this run that ended in a failure
    clean,            \* every response of this run so far was a 200
    gen,              \* fetcher calls started in this run, counted up to 2
    otype,            \* process_objects: index of the object type
    obj,              \* process_objects: index of the object in the page
    field,            \* process_objects: index of the date field
    pair,             \* process_objects: index of the property being created
    props,            \* the datetime properties that exist on the server
    posts,            \* create-property POSTs issued, in order
    created,          \* the properties a POST created, in order
    runs,             \* custom-date: runs of the creation phase started
    last_patch,       \* the last PATCH issued: <<type, object, field>>
    wflow,            \* process_workflow: the workflow's details on the server
    wresult,          \* process_workflow: the flags it returns
    answers,          \* thread pool: what the server holds for each task
    pool,             \* thread pool: the submitted tasks and their locals
    all_engagement_ids, \* engagements main: type -> collected ids
    matched_count,    \* workflows-summarizer main: counter
    enabled_count,    \* workflows-summarizer main: counter
    summarized_count, \* workflows-summarizer main: counter
    event,            \* engagements main: the inputFields of the event
    deal_create_date_unix, \* engagements main: the deal date after int() and / 1000
    all_engagements,  \* engagements main: the engagements fetched
    output_fields,    \* engagements main: the outputFields returned
    history,          \* custom-date: the property history of one object
    patched,          \* custom-date: the values PATCHed to the object, in order
    invoicing_start_date, \* months-in-service-period: the start as a datetime
    invoicing_end_date,   \* months-in-service-period: the end date chosen
    is_projected,     \* months-in-service-period: 'YES' / 'NO'
    months,           \* generate_month_list: the list built so far
    current_date,     \* generate_month_list: the month the loop is at
    returned,         \* months-in-service-period: what main returned
    page_number,      \* scrape_omr_reviews: the page the for loop is at
    max_pages,        \* scrape_omr_reviews: its max_pages argument
    all_reviews,      \* scrape_omr_reviews: the reviews collected so far
    sessions,         \* all-touchpoints: per run, its first request and page
    result            \* what the entry point gave its caller

vars == <<prog, pc, fn, script, server, test_mode, attempt, backoff, slept,
          calls, hist, outcome, url, params, offset, reqlog, collected,
          processed_count, etype, engagement_ids, errors, clean, gen, otype,
          obj, field, pair, props, posts, created, runs, last_patch, wflow,
          wresult, answers, pool,
          all_engagement_ids, matched_count, enabled_count, summarized_count,
          event, deal_create_date_unix, all_engagements, output_fields,
          history, patched, invoicing_start_date, invoicing_end_date,
          is_projected, months, current_date, returned, page_number,
          max_pages, all_reviews, sessions, result>>

env == <<prog, script, server>>
wf == <<wflow, wresult>>

----------------------------------------------------------------------------
(* Bounds of the model *)

MaxPages == 3
MaxRetryAfter == 2
MaxBurst == 5
MaxHistoryRetries == 6
CD_PageObjects == 2
CD_MaxPages == 2
MaxTasks == 2
MaxEngagements == 2
MaxHistory == 2
MaxRuns == 2
TP_MaxPages == 7
OMR_MaxPages == 3
OMR_PageReviews == 2

----------------------------------------------------------------------------
(* Time *)

TicksPerSecond == 4 * 4
Seconds(n) == n * TicksPerSecond

RECURSIVE Pow(_, _)
Pow(b, e) == IF e = 0 THEN 1 ELSE b * Pow(b, e - 1)

RECURSIVE SumWaits(_)
SumWaits(h) == IF h = <<>> THEN 0 ELSE h[1].wait + SumWaits(Tail(h))

----------------------------------------------------------------------------
(* The simulated server *)

ConnErr == 0
NoHeader == 0 - 1
None == 0

Statuses == {200, 429, 500, 404}
RetryAfterValues == 1 .. MaxRetryAfter

\* a page of results is full (as many records as the request's limit) or short
PageKinds == {"short", "full"}
Size(kind, limit) ==
    CASE kind = "full" -> limit
      [] kind = "short" -> 1
      [] OTHER -> 0

\* random.uniform(0, 1): its two extremes
JitterValues == {0, TicksPerSecond}

IsServerError(s) == 500 <= s /\ s < 600

\* raise_for_status of a client that lets the 4xx statuses through
RaisesForServerErrorOnly(s) == 500 <= s /\ s < 600

\* requests.Response.raise_for_status raises for 4xx and 5xx
RaisesForStatus(s) == 400 <= s /\ s < 600

Burst(k) == [j \in 1 .. (k + 1) |-> IF j <= k THEN 429 ELSE 200]
Scripts == {<<>>} \cup {Burst(k) : k \in 0 .. MaxBurst}

RECURSIVE SeqsUpTo(_, _)
SeqsUpTo(S, n) ==
    IF n = 0 THEN {<<>>}
    ELSE LET shorter == SeqsUpTo(S, n - 1)
         IN  shorter \cup {Append(q, x) : q \in shorter, x \in S}

\* a dataset of n >= 1 non-empty pages, or the empty dataset: one empty page
Servers == (SeqsUpTo(PageKinds, MaxPages) \ {<<>>}) \cup {<<"empty">>}

\* servers whose pages are full up to the last one, long enough for the
\* records to pass TEST_LIMIT
FullPages(n) == [i \in 1 .. n |-> "full"]
LongServers ==
    {FullPages(n) : n \in 1 .. TP_MaxPages}
    \cup {Append(FullPages(n), "short") : n \in 1 .. (TP_MaxPages - 1)}

\* a single document (a deal's associations, a workflow's details)
Documents == {<<"short">>, <<"empty">>}

EnvStatuses == IF script # <<>> THEN {Head(script)} ELSE Statuses \cup {ConnErr}
ScriptNext == IF script # <<>> THEN Tail(script) ELSE script

\* The server varies the Retry-After header on the first request of a run,
\* and all the 429 answers to that request carry the same header (or none);
\* the jitter varies on the first two answers to it.  Later requests carry
\* no header and draw jitter 0.
FirstRequest == gen <= 1
Headers(s) ==
    IF s = 429 /\ FirstRequest
    THEN IF \E k \in 1 .. Len(hist) : hist[k].status = 429
         THEN {hist[k].retryAfter : k \in {n \in 1 .. Len(hist) : hist[n].status = 429}}
         ELSE RetryAfterValues \cup {NoHeader}
    ELSE {NoHeader}
Jitters(s) ==
    IF (s = 429 \/ (500 <= s /\ s < 600)) /\ FirstRequest /\ Len(hist) < 2
    THEN JitterValues ELSE {0}
EnvResponses ==
    UNION {{[status |-> s, retryAfter |-> h] : h \in Headers(s)} : s \in EnvStatuses}
EnvResponsesNoHeader ==
    {[status |-> s, retryAfter |-> NoHeader] : s \in EnvStatuses}

\* int(response.headers.get("Retry-After", default))
RetryAfter(r, default) == IF r.retryAfter = NoHeader THEN default ELSE r.retryAfter

\* the JSON body of a 200 answer to a request for page p of the dataset
NextCursor(p) == IF p < Len(server) THEN p + 1 ELSE None
Page(p, limit) ==
    [id |-> p, size |-> Size(server[p], limit), next |-> NextCursor(p)]
NoPage == [id |-> 0, size |-> 0, next |-> None]
PageAt(cursor, limit) == IF cursor = None THEN Page(1, limit) ELSE Page(cursor, limit)

\* What a fetcher call gives its caller: the page of a 200, or a failure
\* (kind) that it raises (raised) or reports by its return value.
NoOutcome == [kind |-> "none", status |-> 0, page |-> NoPage, raised |-> FALSE]
Ok(page) == [kind |-> "ok", status |-> 200, page |-> page, raised |-> FALSE]
Raised(kind, status) ==
    [kind |-> kind, status |-> status, page |-> NoPage, raised |-> TRUE]
Gave(kind, status) ==
    [kind |-> kind, status |-> status, page |-> NoPage, raised |-> FALSE]
Failed(o) == o.kind \in {"http_error", "request_error", "max_retries"}
IsRaise(o) == Failed(o) /\ o.raised

Entry(r, a, j, wait) ==
    [status |-> r.status, retryAfter |-> r.retryAfter, attempt |-> a,
     jitter |-> j, wait |-> wait]

\* a retry loop that sleeps nothing
NoSleep(t) == UNCHANGED slept

\* time.sleep(t)
Sleep(t) == slept' = slept + t

\* a retry loop whose counter stands still
SameAttempt(a) == a

\* the loop counter of the next pass of a for loop over a range
NextAttempt(a) == a + 1

\* the locals of a fetcher call end with the call
FrameReset ==
    /\ attempt' = 0
    /\ backoff' = 0
    /\ slept' = 0
    /\ calls' = 0
    /\ hist' = <<>>

----------------------------------------------------------------------------
(* all-touchpoints.py *)

TEST_MODE == FALSE
TEST_LIMIT == 300
TP_retries == 5
TP_backoff == 2
TP_limit == 50

\* backoff *= 2.5
TP_NextBackoff(b) == (b * 5) \div 2

\* a loop that sends the cursor it sent before
TP_StaleOffset(page) == offset

\* offset = contacts_data.get('paging', {}).get('next', {}).get('after')
TP_NextOffset(page) == page.next

\* a loop that never looks at the record limit
TP_LimitIgnored(count) == FALSE

\* TEST_MODE and processed_count >= TEST_LIMIT
TP_LimitReached(count) == test_mode /\ count >= TEST_LIMIT

\* a loop that only the record limit stops
TP_BreakOnLimitOnly(next, count) == test_mode /\ count >= TEST_LIMIT

\* if not offset or (TEST_MODE and processed_count >= TEST_LIMIT): break
TP_Break(next, count) == next = None \/ TP_LimitReached(count)

\* a run of the script that has not asked for a page yet
TP_NoSession ==
    [requested |-> FALSE,
     request |-> [params |-> [limit |-> 0, after |-> None], attempt |-> 0,
                  backoff |-> 0],
     obtained |-> FALSE, page |-> NoPage, kept |-> FALSE]

\* a run that starts with the cursor the run before it ended with
TP_KeptOffset(previous) == previous

\* process_contacts_in_batches: offset = None
TP_FreshOffset(previous) == None

\* entry to make_request_with_retries(url, headers, params)
TP_StartCall ==
    /\ fn' = "make_request_with_retries"
    /\ attempt' = 0
    /\ backoff' = Seconds(TP_backoff)
    /\ slept' = 0
    /\ calls' = 0
    /\ hist' = <<>>
    /\ outcome' = NoOutcome
    /\ gen' = IF gen < 2 THEN gen + 1 ELSE gen

\* process_contacts_in_batches: the top of the while loop up to the call of
\* get_contacts_with_history(offset)
TP_Loop ==
    /\ prog = "tp" /\ pc = "loop"
    /\ IF TP_LimitReached(processed_count)
       THEN /\ pc' = "done"
            /\ result' = "returned"
            /\ UNCHANGED <<fn, attempt, backoff, slept, calls, hist, outcome, gen,
                           reqlog, params, sessions>>
       ELSE /\ pc' = "http"
            /\ reqlog' = Append(reqlog, offset)
            /\ params' = [limit |-> TP_limit, after |-> offset]
            /\ TP_StartCall
            /\ sessions' =
                  IF reqlog = <<>>
                  THEN [sessions EXCEPT
                          ![Len(sessions)].requested = TRUE,
                          ![Len(sessions)].request =
                              [params |-> params', attempt |-> attempt',
                               backoff |-> backoff']]
                  ELSE sessions
            /\ UNCHANGED result
    /\ UNCHANGED <<prog, script, server, test_mode, url, offset, collected,
                   processed_count, etype, engagement_ids, errors, clean, otype,
                   obj, field, pair, props, posts, created, runs, last_patch,
                   wflow, wresult, answers, pool, all_engagement_ids,
                   matched_count, enabled_count, summarized_count, event,
                   deal_create_date_unix, all_engagements, output_fields,
                   history, patched, invoicing_start_date, invoicing_end_date,
                   is_projected, months, current_date, returned, page_number,
                   max_pages, all_reviews>>

\* the script is run again: process_contacts_in_batches starts with
\* offset = None and processed_count = 0; the locals of the run before it
\* are gone and the server holds what it held
TP_Restart ==
    /\ prog = "tp" /\ pc = "done"
    /\ Len(sessions) < MaxRuns
    /\ sessions' = Append([sessions EXCEPT ![Len(sessions)].kept = (offset # None)],
                          TP_NoSession)
    /\ offset' = TP_FreshOffset(offset)
    /\ processed_count' = 0
    /\ reqlog' = <<>>
    /\ collected' = <<>>
    /\ outcome' = NoOutcome
    /\ errors' = 0
    /\ clean' = TRUE
    /\ result' = "running"
    /\ pc' = "loop"
    /\ UNCHANGED <<prog, fn, script, server, test_mode, attempt, backoff, slept,
                   calls, hist, url, params, etype, engagement_ids, gen, otype,
                   obj, field, pair, props, posts, created, runs, last_patch,
                   wflow, wresult, answers, pool, all_engagement_ids,
                   matched_count, enabled_count, summarized_count, event,
                   deal_create_date_unix, all_engagements, output_fields,
                   history, patched, invoicing_start_date, invoicing_end_date,
                   is_projected, months, current_date, returned, page_number,
                   max_pages, all_reviews>>

\* make_request_with_retries: one pass of the for loop (GET, then the branch
\* on the status), and the raise after the loop when it was the last pass
TP_Attempt ==
    /\ prog = "tp" /\ pc = "http"
    /\ \E r \in EnvResponses :
        /\ script' = ScriptNext
        /\ calls' = calls + 1
        /\ clean' = (clean /\ r.status = 200)
        /\ IF r.status = ConnErr
           THEN /\ outcome' = Raised("request_error", 0)
                /\ hist' = Append(hist, Entry(r, attempt, 0, 0))
                /\ pc' = "ret"
                /\ UNCHANGED <<attempt, backoff, slept>>
           ELSE IF r.status = 429
           THEN /\ Sleep(backoff)
                /\ hist' = Append(hist, Entry(r, attempt, 0, backoff))
                /\ backoff' = TP_NextBackoff(backoff)
                /\ IF attempt + 1 < TP_retries
                   THEN /\ attempt' = NextAttempt(attempt)
                        /\ pc' = "http"
                        /\ UNCHANGED outcome
                   ELSE /\ pc' = "ret"
                        /\ outcome' = Raised("max_retries", 0)
                        /\ UNCHANGED attempt
           ELSE /\ hist' = Append(hist, Entry(r, attempt, 0, 0))
                /\ outcome' = IF RaisesForStatus(r.status)
                              THEN Raised("http_error", r.status)
                              ELSE Ok(PageAt(params.after, params.limit))
                /\ pc' = "ret"
                /\ UNCHANGED <<attempt, backoff, slept>>
    /\ UNCHANGED <<prog, fn, server, test_mode, url, params, offset, reqlog,
                   collected, processed_count, etype, engagement_ids, errors,
                   gen, otype, obj, field, pair, props, posts, created, runs,
                   last_patch, wflow, wresult, answers, pool, all_engagement_ids,
                   matched_count, enabled_count, summarized_count, event,
                   deal_create_date_unix, all_engagements, output_fields,
                   history, patched, invoicing_start_date, invoicing_end_date,
                   is_projected, months, current_date, returned, page_number,
                   max_pages, all_reviews, sessions, result>>

\* process_contacts_in_batches: from the return of get_contacts_with_history
\* to the end of the loop body; an exception leaves the function
TP_ProcessPage ==
    /\ prog = "tp" /\ pc = "ret"
    /\ FrameReset
    /\ IF IsRaise(outcome)
       THEN /\ pc' = "done"
            /\ result' = "raised"
            /\ errors' = errors + 1
            /\ UNCHANGED <<offset, collected, processed_count, sessions>>
       ELSE LET page == outcome.page
                count == processed_count + page.size
            IN  /\ UNCHANGED errors
                /\ sessions' =
                      IF Len(reqlog) = 1
                      THEN [sessions EXCEPT ![Len(sessions)].obtained = TRUE,
                                            ![Len(sessions)].page = page]
                      ELSE sessions
                /\ IF page.size = 0
                   THEN /\ pc' = "done"
                        /\ result' = "returned"
                        /\ UNCHANGED <<offset, collected, processed_count>>
                   ELSE /\ collected' = Append(collected, page.id)
                        /\ processed_count' = count
                        /\ offset' = TP_NextOffset(page)
                        /\ IF TP_Break(TP_NextOffset(page), count)
                           THEN pc' = "done" /\ result' = "returned"
                           ELSE pc' = "loop" /\ UNCHANGED result
    /\ UNCHANGED <<prog, fn, script, server, test_mode, outcome, url, params,
                   reqlog, etype, engagement_ids, clean, gen, otype, obj, field,
                   pair, props, posts, created, runs, last_patch, wflow, wresult,
                   answers, pool, all_engagement_ids, matched_count,
                   enabled_count, summarized_count, event, deal_create_date_unix,
                   all_engagements, output_fields, history, patched,
                   invoicing_start_date, invoicing_end_date, is_projected,
                   months, current_date, returned, page_number, max_pages,
                   all_reviews>>

----------------------------------------------------------------------------
(* engagements-before-deal-creation.py *)

ENG_MAX_RETRIES_PlusOne == 3 + 1
ENG_MAX_RETRIES == 3
RETRY_BACKOFF == 2
ENG_limit == 100
ENGAGEMENT_TYPES == <<"calls", "meetings", "emails">>

NoParams == [limit |-> 0, after |-> None]
Limit(n) == [limit |-> n, after |-> None]

\* a wait_time that never reads the Retry-After header
ENG_WaitIgnoringHeader(r, a, j) ==
    Seconds(RETRY_BACKOFF * Pow(RETRY_BACKOFF, a)) + j

\* wait_time of the 429 branch
ENG_WaitRateLimit(r, a, j) ==
    Seconds(RetryAfter(r, RETRY_BACKOFF) * Pow(RETRY_BACKOFF, a)) + j

\* wait_time of the 5xx branch
ENG_WaitServerError(a, j) == Seconds(RETRY_BACKOFF * Pow(2, a)) + j

\* entry to make_request(url, params) / make_post_request(url, data)
ENG_StartCall(f) ==
    /\ fn' = f
    /\ attempt' = 1
    /\ backoff' = 0
    /\ slept' = 0
    /\ calls' = 0
    /\ hist' = <<>>
    /\ outcome' = NoOutcome
    /\ gen' = IF gen < 2 THEN gen + 1 ELSE gen

\* time.sleep(wait_time), then the next pass of the for loop or, after the
\* last pass, the raise that follows the loop
ENG_SleepAndRetry(r, j, wait) ==
    /\ Sleep(wait)
    /\ hist' = Append(hist, Entry(r, attempt, j, wait))
    /\ IF attempt < ENG_MAX_RETRIES
       THEN /\ attempt' = NextAttempt(attempt)
            /\ pc' = "http"
            /\ UNCHANGED outcome
       ELSE /\ pc' = "ret"
            /\ outcome' = Raised("max_retries", 0)
            /\ UNCHANGED attempt

\* one pass of the for loop of make_request and of make_post_request, whose
\* bodies differ only in the HTTP verb
ENG_RetryPass ==
    \E r \in EnvResponses : \E j \in Jitters(r.status) :
        /\ script' = ScriptNext
        /\ calls' = calls + 1
        /\ clean' = (clean /\ r.status = 200)
        /\ IF r.status = ConnErr
           THEN /\ outcome' = Raised("request_error", 0)
                /\ hist' = Append(hist, Entry(r, attempt, 0, 0))
                /\ pc' = "ret"
                /\ UNCHANGED <<attempt, slept>>
           ELSE IF ~RaisesForStatus(r.status)
           THEN /\ outcome' = Ok(Page(url, ENG_limit))
                /\ hist' = Append(hist, Entry(r, attempt, 0, 0))
                /\ pc' = "ret"
                /\ UNCHANGED <<attempt, slept>>
           ELSE IF r.status = 429
           THEN ENG_SleepAndRetry(r, j, ENG_WaitRateLimit(r, attempt, j))
           ELSE IF IsServerError(r.status)
           THEN ENG_SleepAndRetry(r, j, ENG_WaitServerError(attempt, j))
           ELSE /\ outcome' = Raised("http_error", r.status)
                /\ hist' = Append(hist, Entry(r, attempt, 0, 0))
                /\ pc' = "ret"
                /\ UNCHANGED <<attempt, slept>>

\* make_request
ENG_Attempt ==
    /\ pc = "http" /\ fn = "make_request"
    /\ ENG_RetryPass
    /\ UNCHANGED <<prog, fn, server, test_mode, backoff, url, params, offset,
                   reqlog, collected, processed_count, etype, engagement_ids,
                   errors, gen, otype, obj, field, pair, props, posts, created,
                   runs, last_patch, wflow, wresult, answers, pool,
                   all_engagement_ids, matched_count, enabled_count,
                   summarized_count, event, deal_create_date_unix,
                   all_engagements, output_fields, history, patched,
                   invoicing_start_date, invoicing_end_date, is_projected,
                   months, current_date, returned, page_number, max_pages,
                   all_reviews, sessions, result>>

\* make_post_request
ENG_PostAttempt ==
    /\ pc = "http" /\ fn = "make_post_request"
    /\ ENG_RetryPass
    /\ UNCHANGED <<prog, fn, server, test_mode, backoff, url, params, offset,
                   reqlog, collected, processed_count, etype, engagement_ids,
                   errors, gen, otype, obj, field, pair, props, posts, created,
                   runs, last_patch, wflow, wresult, answers, pool,
                   all_engagement_ids, matched_count, enabled_count,
                   summarized_count, event, deal_create_date_unix,
                   all_engagements, output_fields, history, patched,
                   invoicing_start_date, invoicing_end_date, is_projected,
                   months, current_date, returned, page_number, max_pages,
                   all_reviews, sessions, result>>

\* get_associated_company_id: up to the call of make_request
ENG_CompanyCall ==
    /\ prog = "eng_company" /\ pc = "start"
    /\ url' = 1
    /\ params' = NoParams
    /\ reqlog' = Append(reqlog, 1)
    /\ ENG_StartCall("make_request")
    /\ pc' = "http"
    /\ UNCHANGED <<prog, script, server, test_mode, offset, collected,
                   processed_count, etype, engagement_ids, errors, clean, otype,
                   obj, field, pair, props, posts, created, runs, last_patch,
                   wflow, wresult, answers, pool, all_engagement_ids,
                   matched_count, enabled_count, summarized_count, event,
                   deal_create_date_unix, all_engagements, output_fields,
                   history, patched, invoicing_start_date, invoicing_end_date,
                   is_projected, months, current_date, returned, page_number,
                   max_pages, all_reviews, sessions, result>>

\* get_associated_company_id: after make_request; no association raises
ENG_CompanyReturn ==
    /\ prog = "eng_company" /\ pc = "ret"
    /\ FrameReset
    /\ pc' = "done"
    /\ errors' = IF IsRaise(outcome) THEN errors + 1 ELSE errors
    /\ result' = IF IsRaise(outcome) \/ outcome.page.size = 0
                 THEN "raised" ELSE "returned"
    /\ UNCHANGED <<prog, fn, script, server, test_mode, outcome, url, params,
                   offset, reqlog, collected, processed_count, etype,
                   engagement_ids, clean, gen, otype, obj, field, pair, props,
                   posts, created, runs, last_patch, wflow, wresult, answers,
                   pool, all_engagement_ids, matched_count, enabled_count,
                   summarized_count, event, deal_create_date_unix,
                   all_engagements, output_fields, history, patched,
                   invoicing_start_date, invoicing_end_date, is_projected,
                   months, current_date, returned, page_number, max_pages,
                   all_reviews, sessions>>

\* get_company_contacts: contacts = [], the first url and params
ENG_ContactsStart ==
    /\ prog = "eng_contacts" /\ pc = "start"
    /\ collected' = <<>>
    /\ url' = 1
    /\ params' = Limit(ENG_limit)
    /\ pc' = "loop"
    /\ UNCHANGED <<prog, fn, script, server, test_mode, attempt, backoff, slept,
                   calls, hist, outcome, offset, reqlog, processed_count, etype,
                   engagement_ids, errors, clean, gen, otype, obj, field, pair,
                   props, posts, created, runs, last_patch, wflow, wresult,
                   answers, pool, all_engagement_ids, matched_count,
                   enabled_count, summarized_count, event, deal_create_date_unix,
                   all_engagements, output_fields, history, patched,
                   invoicing_start_date, invoicing_end_date, is_projected,
                   months, current_date, returned, page_number, max_pages,
                   all_reviews, sessions, result>>

\* get_company_contacts: the while test, then the call of make_request
ENG_ContactsLoop ==
    /\ prog = "eng_contacts" /\ pc = "loop"
    /\ IF url = None
       THEN /\ pc' = "done"
            /\ result' = "returned"
            /\ UNCHANGED <<fn, attempt, backoff, slept, calls, hist, outcome, gen,
                           reqlog>>
       ELSE /\ pc' = "http"
            /\ reqlog' = Append(reqlog, url)
            /\ ENG_StartCall("make_request")
            /\ UNCHANGED result
    /\ UNCHANGED <<prog, script, server, test_mode, url, params, offset,
                   collected, processed_count, etype, engagement_ids, errors,
                   clean, otype, obj, field, pair, props, posts, created, runs,
                   last_patch, wflow, wresult, answers, pool, all_engagement_ids,
                   matched_count, enabled_count, summarized_count, event,
                   deal_create_date_unix, all_engagements, output_fields,
                   history, patched, invoicing_start_date, invoicing_end_date,
                   is_projected, months, current_date, returned, page_number,
                   max_pages, all_reviews, sessions>>

\* get_company_contacts: the rest of the loop body; an exception of
\* make_request leaves the function
ENG_ContactsPage ==
    /\ prog = "eng_contacts" /\ pc = "ret"
    /\ FrameReset
    /\ IF IsRaise(outcome)
       THEN /\ pc' = "done"
            /\ result' = "raised"
            /\ errors' = errors + 1
            /\ UNCHANGED <<collected, url, params>>
       ELSE /\ collected' = Append(collected, outcome.page.id)
            /\ url' = outcome.page.next
            /\ params' = NoParams
            /\ pc' = "loop"
            /\ UNCHANGED <<errors, result>>
    /\ UNCHANGED <<prog, fn, script, server, test_mode, outcome, offset, reqlog,
                   processed_count, etype, engagement_ids, clean, gen, otype,
                   obj, field, pair, props, posts, created, runs, last_patch,
                   wflow, wresult, answers, pool, all_engagement_ids,
                   matched_count, enabled_count, summarized_count, event,
                   deal_create_date_unix, all_engagements, output_fields,
                   history, patched, invoicing_start_date, invoicing_end_date,
                   is_projected, months, current_date, returned, page_number,
                   max_pages, all_reviews, sessions>>

\* get_engagement_ids_for_contact: engagement_ids = {type: []}
ENG_IdsStart ==
    /\ prog = "eng_ids" /\ pc = "start"
    /\ engagement_ids' = [t \in 1 .. Len(ENGAGEMENT_TYPES) |-> <<>>]
    /\ etype' = 1
    /\ pc' = "type"
    /\ UNCHANGED <<prog, fn, script, server, test_mode, attempt, backoff, slept,
                   calls, hist, outcome, url, params, offset, reqlog, collected,
                   processed_count, errors, clean, gen, otype, obj, field, pair,
                   props, posts, created, runs, last_patch, wflow, wresult,
                   answers, pool, all_engagement_ids, matched_count,
                   enabled_count, summarized_count, event, deal_create_date_unix,
                   all_engagements, output_fields, history, patched,
                   invoicing_start_date, invoicing_end_date, is_projected,
                   months, current_date, returned, page_number, max_pages,
                   all_reviews, sessions, result>>

\* get_engagement_ids_for_contact: the head of the for loop over the types
ENG_IdsType ==
    /\ prog = "eng_ids" /\ pc = "type"
    /\ IF etype > Len(ENGAGEMENT_TYPES)
       THEN /\ pc' = "done"
            /\ result' = "returned"
            /\ UNCHANGED <<collected, url, params>>
       ELSE /\ collected' = <<>>
            /\ url' = 1
            /\ params' = Limit(500)
            /\ pc' = "loop"
            /\ UNCHANGED result
    /\ UNCHANGED <<prog, fn, script, server, test_mode, attempt, backoff, slept,
                   calls, hist, outcome, offset, reqlog, processed_count, etype,
                   engagement_ids, errors, clean, gen, otype, obj, field, pair,
                   props, posts, created, runs, last_patch, wflow, wresult,
                   answers, pool, all_engagement_ids, matched_count,
                   enabled_count, summarized_count, event, deal_create_date_unix,
                   all_engagements, output_fields, history, patched,
                   invoicing_start_date, invoicing_end_date, is_projected,
                   months, current_date, returned, page_number, max_pages,
                   all_reviews, sessions>>

\* engagement_ids[engagement_type].extend(associated_ids), next type
ENG_IdsExtend ==
    /\ engagement_ids' =
          [engagement_ids EXCEPT ![etype] = engagement_ids[etype] \o collected]
    /\ etype' = etype + 1
    /\ pc' = "type"

\* get_engagement_ids_for_contact: the while test, then the call
ENG_IdsLoop ==
    /\ prog = "eng_ids" /\ pc = "loop"
    /\ IF url = None
       THEN /\ ENG_IdsExtend
            /\ UNCHANGED <<fn, attempt, backoff, slept, calls, hist, outcome, gen,
                           reqlog>>
       ELSE /\ pc' = "http"
            /\ reqlog' = Append(reqlog, url)
            /\ ENG_StartCall("make_request")
            /\ UNCHANGED <<etype, engagement_ids>>
    /\ UNCHANGED <<prog, script, server, test_mode, url, params, offset,
                   collected, processed_count, errors, clean, otype, obj, field,
                   pair, props, posts, created, runs, last_patch, wflow, wresult,
                   answers, pool, all_engagement_ids, matched_count,
                   enabled_count, summarized_count, event, deal_create_date_unix,
                   all_engagements, output_fields, history, patched,
                   invoicing_start_date, invoicing_end_date, is_projected,
                   months, current_date, returned, page_number, max_pages,
                   all_reviews, sessions, result>>

\* a paging loop without the except clause: the error leaves the function
ENG_IdsReraise ==
    /\ pc' = "done"
    /\ result' = "raised"
    /\ errors' = errors + 1
    /\ UNCHANGED <<collected, url, params, etype, engagement_ids>>

\* except Exception: log, break; then the statement after the while loop
ENG_IdsExcept ==
    /\ ENG_IdsExtend
    /\ errors' = errors + 1
    /\ UNCHANGED <<collected, url, params, result>>

\* get_engagement_ids_for_contact: the rest of the try body, or the except
\* branch, which logs and breaks out of the while loop
ENG_IdsPage ==
    /\ prog = "eng_ids" /\ pc = "ret"
    /\ FrameReset
    /\ IF IsRaise(outcome)
       THEN ENG_IdsExcept
       ELSE /\ collected' = Append(collected, outcome.page.id)
            /\ url' = outcome.page.next
            /\ params' = NoParams
            /\ pc' = "loop"
            /\ UNCHANGED <<errors, etype, engagement_ids, result>>
    /\ UNCHANGED <<prog, fn, script, server, test_mode, outcome, offset, reqlog,
                   processed_count, clean, gen, otype, obj, field, pair, props,
                   posts, created, runs, last_patch, wflow, wresult, answers,
                   pool, all_engagement_ids, matched_count, enabled_count,
                   summarized_count, event, deal_create_date_unix,
                   all_engagements, output_fields, history, patched,
                   invoicing_start_date, invoicing_end_date, is_projected,
                   months, current_date, returned, page_number, max_pages,
                   all_reviews, sessions>>

\* batch_get_engagement_details: engagements = [], the first batch
ENG_BatchStart ==
    /\ prog = "eng_batch" /\ pc = "start"
    /\ collected' = <<>>
    /\ etype' = 1
    /\ pc' = "loop"
    /\ UNCHANGED <<prog, fn, script, server, test_mode, attempt, backoff, slept,
                   calls, hist, outcome, url, params, offset, reqlog,
                   processed_count, engagement_ids, errors, clean, gen, otype,
                   obj, field, pair, props, posts, created, runs, last_patch,
                   wflow, wresult, answers, pool, all_engagement_ids,
                   matched_count, enabled_count, summarized_count, event,
                   deal_create_date_unix, all_engagements, output_fields,
                   history, patched, invoicing_start_date, invoicing_end_date,
                   is_projected, months, current_date, returned, page_number,
                   max_pages, all_reviews, sessions, result>>

\* batch_get_engagement_details: the head of the for loop over the batches
\* (batch k of the ids is answered with page k), then make_post_request
ENG_BatchLoop ==
    /\ prog = "eng_batch" /\ pc = "loop"
    /\ IF etype > Len(server)
       THEN /\ pc' = "done"
            /\ result' = "returned"
            /\ UNCHANGED <<fn, attempt, backoff, slept, calls, hist, outcome, gen,
                           reqlog, url>>
       ELSE /\ pc' = "http"
            /\ url' = etype
            /\ reqlog' = Append(reqlog, etype)
            /\ ENG_StartCall("make_post_request")
            /\ UNCHANGED result
    /\ UNCHANGED <<prog, script, server, test_mode, params, offset, collected,
                   processed_count, etype, engagement_ids, errors, clean, otype,
                   obj, field, pair, props, posts, created, runs, last_patch,
                   wflow, wresult, answers, pool, all_engagement_ids,
                   matched_count, enabled_count, summarized_count, event,
                   deal_create_date_unix, all_engagements, output_fields,
                   history, patched, invoicing_start_date, invoicing_end_date,
                   is_projected, months, current_date, returned, page_number,
                   max_pages, all_reviews, sessions>>

\* batch_get_engagement_details: the rest of the try body, or the except
\* branch, which logs and goes on with the next batch
ENG_BatchPage ==
    /\ prog = "eng_batch" /\ pc = "ret"
    /\ FrameReset
    /\ IF IsRaise(outcome)
       THEN /\ errors' = errors + 1
            /\ UNCHANGED collected
       ELSE /\ collected' = Append(collected, outcome.page.id)
            /\ UNCHANGED errors
    /\ etype' = etype + 1
    /\ pc' = "loop"
    /\ UNCHANGED <<prog, fn, script, server, test_mode, outcome, url, params,
                   offset, reqlog, processed_count, engagement_ids, clean, gen,
                   otype, obj, field, pair, props, posts, created, runs,
                   last_patch, wflow, wresult, answers, pool, all_engagement_ids,
                   matched_count, enabled_count, summarized_count, event,
                   deal_create_date_unix, all_engagements, output_fields,
                   history, patched, invoicing_start_date, invoicing_end_date,
                   is_projected, months, current_date, returned, page_number,
                   max_pages, all_reviews, sessions, result>>

----------------------------------------------------------------------------
(* workflows-summarizer.py *)

WS_MAX_RETRIES == 5
INITIAL_BACKOFF == 2
BACKOFF_FACTOR == 3
WS_limit == 100

\* time.sleep(int(response.headers.get('Retry-After', backoff)))
WS_WaitRateLimit(r, b) ==
    IF r.retryAfter = NoHeader THEN b ELSE Seconds(r.retryAfter)

\* backoff = INITIAL_BACKOFF and the head of the for loop over the attempts
WS_StartRetries(f) ==
    /\ fn' = f
    /\ attempt' = 1
    /\ backoff' = Seconds(INITIAL_BACKOFF)
    /\ slept' = 0
    /\ calls' = 0
    /\ hist' = <<>>
    /\ outcome' = NoOutcome
    /\ gen' = IF gen < 2 THEN gen + 1 ELSE gen

\* time.sleep(wait); backoff *= BACKOFF_FACTOR; the next pass of the for loop
\* when there is one
WS_SleepAndRetry(r, wait) ==
    /\ Sleep(wait)
    /\ hist' = Append(hist, Entry(r, attempt, 0, wait))
    /\ backoff' = backoff * BACKOFF_FACTOR
    /\ attempt' = IF attempt < WS_MAX_RETRIES THEN NextAttempt(attempt) ELSE attempt

\* fetch_all_workflows_v4: workflows = [], the first url and params
WS_AllStart ==
    /\ prog = "wf_all" /\ pc = "start"
    /\ collected' = <<>>
    /\ url' = 1
    /\ params' = Limit(WS_limit)
    /\ pc' = "loop"
    /\ UNCHANGED <<prog, fn, script, server, test_mode, attempt, backoff, slept,
                   calls, hist, outcome, offset, reqlog, processed_count, etype,
                   engagement_ids, errors, clean, gen, otype, obj, field, pair,
                   props, posts, created, runs, last_patch, wflow, wresult,
                   answers, pool, all_engagement_ids, matched_count,
                   enabled_count, summarized_count, event, deal_create_date_unix,
                   all_engagements, output_fields, history, patched,
                   invoicing_start_date, invoicing_end_date, is_projected,
                   months, current_date, returned, page_number, max_pages,
                   all_reviews, sessions, result>>

\* fetch_all_workflows_v4: the head of the while loop
WS_AllLoop ==
    /\ prog = "wf_all" /\ pc = "loop"
    /\ WS_StartRetries("fetch_all_workflows_v4")
    /\ reqlog' = Append(reqlog, url)
    /\ pc' = "http"
    /\ UNCHANGED <<prog, script, server, test_mode, url, params, offset,
                   collected, processed_count, etype, engagement_ids, errors,
                   clean, otype, obj, field, pair, props, posts, created, runs,
                   last_patch, wflow, wresult, answers, pool, all_engagement_ids,
                   matched_count, enabled_count, summarized_count, event,
                   deal_create_date_unix, all_engagements, output_fields,
                   history, patched, invoicing_start_date, invoicing_end_date,
                   is_projected, months, current_date, returned, page_number,
                   max_pages, all_reviews, sessions, result>>

\* fetch_all_workflows_v4: one pass of the for loop, with the return of the
\* for-else branch when it was the last pass
WS_AllAttempt ==
    /\ prog = "wf_all" /\ pc = "http"
    /\ \E r \in EnvResponses :
        /\ script' = ScriptNext
        /\ calls' = calls + 1
        /\ clean' = (clean /\ r.status = 200)
        /\ IF r.status = 200
           THEN LET page == Page(url, WS_limit)
                IN  /\ collected' = Append(collected, page.id)
                    /\ outcome' = Ok(page)
                    /\ hist' = Append(hist, Entry(r, attempt, 0, 0))
                    /\ IF page.next # None
                       THEN /\ url' = page.next
                            /\ params' = NoParams
                            /\ pc' = "loop"
                            /\ UNCHANGED result
                       ELSE /\ pc' = "done"
                            /\ result' = "returned"
                            /\ UNCHANGED <<url, params>>
                    /\ UNCHANGED <<attempt, backoff, slept, errors>>
           ELSE IF r.status = 429 \/ r.status = ConnErr
           THEN /\ WS_SleepAndRetry(r, IF r.status = 429
                                       THEN WS_WaitRateLimit(r, backoff)
                                       ELSE backoff)
                /\ IF attempt < WS_MAX_RETRIES
                   THEN /\ pc' = "http"
                        /\ UNCHANGED <<outcome, errors, result>>
                   ELSE /\ pc' = "done"
                        /\ outcome' = Gave("max_retries", 0)
                        /\ errors' = errors + 1
                        /\ result' = "returned"
                /\ UNCHANGED <<collected, url, params>>
           ELSE /\ outcome' = Gave("http_error", r.status)
                /\ hist' = Append(hist, Entry(r, attempt, 0, 0))
                /\ errors' = errors + 1
                /\ pc' = "done"
                /\ result' = "returned"
                /\ UNCHANGED <<attempt, backoff, slept, collected, url, params>>
    /\ UNCHANGED <<prog, fn, server, test_mode, offset, reqlog, processed_count,
                   etype, engagement_ids, gen, otype, obj, field, pair, props,
                   posts, created, runs, last_patch, wflow, wresult, answers,
                   pool, all_engagement_ids, matched_count, enabled_count,
                   summarized_count, event, deal_create_date_unix,
                   all_engagements, output_fields, history, patched,
                   invoicing_start_date, invoicing_end_date, is_projected,
                   months, current_date, returned, page_number, max_pages,
                   all_reviews, sessions>>

\* a workflow on the server: isEnabled, whether its details hold one of the
\* searched properties, whether the summary request succeeds
Flows == [enabled : BOOLEAN, contains : BOOLEAN, summaryOk : BOOLEAN]
NoFlow == [enabled |-> FALSE, contains |-> FALSE, summaryOk |-> FALSE]

NoFlags == [matched |-> FALSE, enabled |-> FALSE, summarized |-> FALSE]

\* process_workflow after fetch_workflow_details_v4: details is what the
\* fetch returned ({} when ok is FALSE), flow the workflow on the server
WS_Flags(ok, flow) ==
    IF ~ok THEN NoFlags
    ELSE [enabled |-> flow.enabled,
          matched |-> flow.enabled /\ flow.contains,
          summarized |-> flow.enabled /\ flow.contains /\ flow.summaryOk]

\* process_workflow: up to the first pass of fetch_workflow_details_v4
WS_ProcessStart ==
    /\ prog = "wf_process" /\ pc = "start"
    /\ wresult' = NoFlags
    /\ url' = 1
    /\ reqlog' = Append(reqlog, 1)
    /\ WS_StartRetries("fetch_workflow_details_v4")
    /\ pc' = "http"
    /\ UNCHANGED <<prog, script, server, test_mode, params, offset, collected,
                   processed_count, etype, engagement_ids, errors, clean, otype,
                   obj, field, pair, props, posts, created, runs, last_patch,
                   wflow, answers, pool, all_engagement_ids, matched_count,
                   enabled_count, summarized_count, event, deal_create_date_unix,
                   all_engagements, output_fields, history, patched,
                   invoicing_start_date, invoicing_end_date, is_projected,
                   months, current_date, returned, page_number, max_pages,
                   all_reviews, sessions, result>>

\* fetch_workflow_details_v4: one pass of the for loop, with the return {}
\* after the loop when it was the last pass
WS_DetailsAttempt ==
    /\ prog = "wf_process" /\ pc = "http"
    /\ \E r \in EnvResponses :
        /\ script' = ScriptNext
        /\ calls' = calls + 1
        /\ clean' = (clean /\ r.status = 200)
        /\ IF r.status = 200
           THEN /\ outcome' = Ok(Page(url, WS_limit))
                /\ hist' = Append(hist, Entry(r, attempt, 0, 0))
                /\ pc' = "ret"
                /\ UNCHANGED <<attempt, backoff, slept>>
           ELSE IF r.status = 429 \/ r.status = ConnErr
           THEN /\ WS_SleepAndRetry(r, IF r.status = 429
                                       THEN WS_WaitRateLimit(r, backoff)
                                       ELSE backoff)
                /\ IF attempt < WS_MAX_RETRIES
                   THEN pc' = "http" /\ UNCHANGED outcome
                   ELSE pc' = "ret" /\ outcome' = Gave("max_retries", 0)
           ELSE /\ outcome' = Gave("http_error", r.status)
                /\ hist' = Append(hist, Entry(r, attempt, 0, 0))
                /\ pc' = "ret"
                /\ UNCHANGED <<attempt, backoff, slept>>
    /\ UNCHANGED <<prog, fn, server, test_mode, url, params, offset, reqlog,
                   collected, processed_count, etype, engagement_ids, errors,
                   gen, otype, obj, field, pair, props, posts, created, runs,
                   last_patch, wflow, wresult, answers, pool, all_engagement_ids,
                   matched_count, enabled_count, summarized_count, event,
                   deal_create_date_unix, all_engagements, output_fields,
                   history, patched, invoicing_start_date, invoicing_end_date,
                   is_projected, months, current_date, returned, page_number,
                   max_pages, all_reviews, sessions, result>>

\* process_workflow: from the return of fetch_workflow_details_v4 to its own
WS_ProcessReturn ==
    /\ prog = "wf_process" /\ pc = "ret"
    /\ FrameReset
    /\ wresult' = WS_Flags(~Failed(outcome) /\ outcome.page.size > 0, wflow)
    /\ errors' = IF Failed(outcome) THEN errors + 1 ELSE errors
    /\ result' = "returned"
    /\ pc' = "done"
    /\ UNCHANGED <<prog, fn, script, server, test_mode, outcome, url, params,
                   offset, reqlog, collected, processed_count, etype,
                   engagement_ids, clean, gen, otype, obj, field, pair, props,
                   posts, created, runs, last_patch, wflow, answers, pool,
                   all_engagement_ids, matched_count, enabled_count,
                   summarized_count, event, deal_create_date_unix,
                   all_engagements, output_fields, history, patched,
                   invoicing_start_date, invoicing_end_date, is_projected,
                   months, current_date, returned, page_number, max_pages,
                   all_reviews, sessions>>

----------------------------------------------------------------------------
(* compress-hubspot-images.py *)

IMG_limit == 500
IMG_LastPageBelow == 499

\* data['objects'] of a 200 answer to the request at an offset
IMG_Page(o) ==
    LET p == (o \div IMG_limit) + 1
    IN  IF p <= Len(server) THEN Page(p, IMG_limit) ELSE NoPage

\* fetch_images: all_images = [], offset = 0
IMG_Start ==
    /\ prog = "img" /\ pc = "start"
    /\ collected' = <<>>
    /\ offset' = 0
    /\ fn' = "fetch_images"
    /\ pc' = "loop"
    /\ UNCHANGED <<prog, script, server, test_mode, attempt, backoff, slept,
                   calls, hist, outcome, url, params, reqlog, processed_count,
                   etype, engagement_ids, errors, clean, gen, otype, obj, field,
                   pair, props, posts, created, runs, last_patch, wflow, wresult,
                   answers, pool, all_engagement_ids, matched_count,
                   enabled_count, summarized_count, event, deal_create_date_unix,
                   all_engagements, output_fields, history, patched,
                   invoicing_start_date, invoicing_end_date, is_projected,
                   months, current_date, returned, page_number, max_pages,
                   all_reviews, sessions, result>>

\* fetch_images: one pass of the while loop
IMG_Request ==
    /\ prog = "img" /\ pc = "loop"
    /\ reqlog' = Append(reqlog, offset)
    /\ params' = [limit |-> IMG_limit, after |-> offset]
    /\ \E r \in EnvResponsesNoHeader :
        /\ script' = ScriptNext
        /\ calls' = calls + 1
        /\ clean' = (clean /\ r.status = 200)
        /\ IF r.status = ConnErr
           THEN /\ outcome' = Raised("request_error", 0)
                /\ errors' = errors + 1
                /\ pc' = "done"
                /\ result' = "raised"
                /\ UNCHANGED <<collected, offset>>
           ELSE IF r.status = 200
           THEN LET page == IMG_Page(offset)
                IN  /\ outcome' = Ok(page)
                    /\ collected' = IF page.size > 0
                                    THEN Append(collected, page.id)
                                    ELSE collected
                    /\ IF page.size < IMG_LastPageBelow
                       THEN /\ pc' = "done"
                            /\ result' = "returned"
                            /\ UNCHANGED offset
                       ELSE /\ offset' = offset + IMG_limit
                            /\ pc' = "loop"
                            /\ UNCHANGED result
                    /\ UNCHANGED errors
           ELSE /\ outcome' = Gave("http_error", r.status)
                /\ errors' = errors + 1
                /\ pc' = "done"
                /\ result' = "returned"
                /\ UNCHANGED <<collected, offset>>
    /\ UNCHANGED <<prog, fn, server, test_mode, attempt, backoff, slept, hist,
                   url, processed_count, etype, engagement_ids, gen, otype, obj,
                   field, pair, props, posts, created, runs, last_patch, wflow,
                   wresult, answers, pool, all_engagement_ids, matched_count,
                   enabled_count, summarized_count, event, deal_create_date_unix,
                   all_engagements, output_fields, history, patched,
                   invoicing_start_date, invoicing_end_date, is_projected,
                   months, current_date, returned, page_number, max_pages,
                   all_reviews, sessions>>

----------------------------------------------------------------------------
(* custom-date-to-custom-datetime.py *)

custom_date_fields ==
    <<[type |-> "contacts", fields |-> <<"date_test", "another_date_field">>],
      [type |-> "companies", fields |-> <<"another_date_field">>],
      [type |-> "deals", fields |-> <<"another_date_field">>]>>

\* the (object type, date field) pairs in the order of the creation loops
CD_Pairs == <<<<1, 1>>, <<1, 2>>, <<2, 1>>, <<3, 1>>>>

CD_Range(q) == {q[k] : k \in 1 .. Len(q)}

\* wait_time of fetch_property_history, retries already incremented
CD_WaitRateLimit(r, retries, j) == Seconds(RetryAfter(r, 1) * Pow(2, retries)) + j

\* the page of objects the current cursor addresses
CD_Page == PageAt(offset, CD_PageObjects)

\* process_objects starts: the first for loop, over the pairs of
\* custom_date_fields
CD_Start ==
    /\ prog \in {"cd", "cd_create"} /\ pc = "start"
    /\ pair' = 1
    /\ runs' = 1
    /\ pc' = "create"
    /\ UNCHANGED <<prog, fn, script, server, test_mode, attempt, backoff, slept,
                   calls, hist, outcome, url, params, offset, reqlog, collected,
                   processed_count, etype, engagement_ids, errors, clean, gen,
                   otype, obj, field, props, posts, created, last_patch, wflow,
                   wresult, answers, pool, all_engagement_ids, matched_count,
                   enabled_count, summarized_count, event, deal_create_date_unix,
                   all_engagements, output_fields, history, patched,
                   invoicing_start_date, invoicing_end_date, is_projected,
                   months, current_date, returned, page_number, max_pages,
                   all_reviews, sessions, result>>

\* the answers to the GET of property_exists: 200 for a property that
\* exists, 404 for one that does not, and (in the runs of the creation phase
\* alone) a 429
CD_GetStatuses(p) ==
    {IF p \in props THEN 200 ELSE 404}
    \cup (IF prog = "cd_create" THEN {429} ELSE {})

\* a check that never finds the property
CD_ExistsNever(status) == FALSE

\* property_exists: return response.status_code == 200
CD_Exists(status) == status = 200

\* create_datetime_property for one (object type, date field): the GET of
\* property_exists, then the POST when the property is reported absent; the
\* server answers the POST 201 and keeps the property, or 409 when it has it
CD_Create ==
    /\ prog \in {"cd", "cd_create"} /\ pc = "create"
    /\ \E status \in CD_GetStatuses(CD_Pairs[pair]) :
        IF CD_Exists(status)
        THEN UNCHANGED <<props, posts, created>>
        ELSE /\ posts' = Append(posts, [pair |-> CD_Pairs[pair],
                                        status |-> status, run |-> runs])
             /\ IF CD_Pairs[pair] \in props
                THEN UNCHANGED <<props, created>>
                ELSE /\ props' = props \cup {CD_Pairs[pair]}
                     /\ created' = Append(created, CD_Pairs[pair])
    /\ IF pair < Len(CD_Pairs)
       THEN /\ pair' = pair + 1
            /\ UNCHANGED <<pc, otype>>
       ELSE IF prog = "cd"
       THEN /\ pc' = "type"
            /\ otype' = 1
            /\ UNCHANGED pair
       ELSE /\ pc' = "created"
            /\ UNCHANGED <<pair, otype>>
    /\ UNCHANGED <<prog, fn, script, server, test_mode, attempt, backoff, slept,
                   calls, hist, outcome, url, params, offset, reqlog, collected,
                   processed_count, etype, engagement_ids, errors, clean, gen,
                   obj, field, runs, last_patch, wflow, wresult, answers, pool,
                   all_engagement_ids, matched_count, enabled_count,
                   summarized_count, event, deal_create_date_unix,
                   all_engagements, output_fields, history, patched,
                   invoicing_start_date, invoicing_end_date, is_projected,
                   months, current_date, returned, page_number, max_pages,
                   all_reviews, sessions, result>>

\* the script is run again against the same portal: process_objects starts
\* over with its creation loop
CD_Rerun ==
    /\ prog = "cd_create" /\ pc = "created"
    /\ IF runs < MaxRuns
       THEN /\ runs' = runs + 1
            /\ pair' = 1
            /\ pc' = "create"
            /\ UNCHANGED result
       ELSE /\ pc' = "done"
            /\ result' = "returned"
            /\ UNCHANGED <<runs, pair>>
    /\ UNCHANGED <<prog, fn, script, server, test_mode, attempt, backoff, slept,
                   calls, hist, outcome, url, params, offset, reqlog, collected,
                   processed_count, etype, engagement_ids, errors, clean, gen,
                   otype, obj, field, props, posts, created, last_patch, wflow,
                   wresult, answers, pool, all_engagement_ids, matched_count,
                   enabled_count, summarized_count, event, deal_create_date_unix,
                   all_engagements, output_fields, history, patched,
                   invoicing_start_date, invoicing_end_date, is_projected,
                   months, current_date, returned, page_number, max_pages,
                   all_reviews, sessions>>

\* process_objects: the head of the second for loop over the object types
CD_Type ==
    /\ prog = "cd" /\ pc = "type"
    /\ IF otype > Len(custom_date_fields)
       THEN /\ pc' = "done"
            /\ result' = "returned"
            /\ UNCHANGED <<offset, reqlog>>
       ELSE /\ offset' = None
            /\ reqlog' = <<>>
            /\ pc' = "page"
            /\ UNCHANGED result
    /\ UNCHANGED <<prog, fn, script, server, test_mode, attempt, backoff, slept,
                   calls, hist, outcome, url, params, collected, processed_count,
                   etype, engagement_ids, errors, clean, gen, otype, obj, field,
                   pair, props, posts, created, runs, last_patch, wflow, wresult,
                   answers, pool, all_engagement_ids, matched_count,
                   enabled_count, summarized_count, event, deal_create_date_unix,
                   all_engagements, output_fields, history, patched,
                   invoicing_start_date, invoicing_end_date, is_projected,
                   months, current_date, returned, page_number, max_pages,
                   all_reviews, sessions>>

\* has_more / after at the end of the while body
CD_Paging ==
    IF CD_Page.next # None
    THEN /\ offset' = CD_Page.next
         /\ pc' = "page"
         /\ UNCHANGED otype
    ELSE /\ offset' = None
         /\ pc' = "type"
         /\ otype' = otype + 1

\* the next date field, the next object, or the end of the while body
CD_Advance ==
    IF field < Len(custom_date_fields[otype].fields)
    THEN /\ field' = field + 1
         /\ pc' = "objs"
         /\ UNCHANGED <<obj, offset, otype>>
    ELSE IF obj < CD_Page.size
    THEN /\ obj' = obj + 1
         /\ field' = 1
         /\ pc' = "objs"
         /\ UNCHANGED <<offset, otype>>
    ELSE /\ CD_Paging
         /\ UNCHANGED <<obj, field>>

\* process_objects: the GET of one page of objects; a status other than 200
\* breaks out of the while loop, a request exception leaves the function
CD_PageRequest ==
    /\ prog = "cd" /\ pc = "page"
    /\ reqlog' = Append(reqlog, offset)
    /\ \E r \in EnvResponsesNoHeader :
        /\ script' = ScriptNext
        /\ clean' = (clean /\ r.status = 200)
        /\ IF r.status = ConnErr
           THEN /\ pc' = "done"
                /\ result' = "raised"
                /\ UNCHANGED <<offset, otype, obj, field>>
           ELSE IF r.status # 200
           THEN /\ pc' = "type"
                /\ otype' = otype + 1
                /\ UNCHANGED <<offset, obj, field, result>>
           ELSE IF CD_Page.size = 0
           THEN /\ CD_Paging
                /\ UNCHANGED <<obj, field, result>>
           ELSE /\ obj' = 1
                /\ field' = 1
                /\ pc' = "objs"
                /\ UNCHANGED <<offset, otype, result>>
    /\ UNCHANGED <<prog, fn, server, test_mode, attempt, backoff, slept, calls,
                   hist, outcome, url, params, collected, processed_count, etype,
                   engagement_ids, errors, gen, pair, props, posts, created,
                   runs, last_patch, wflow, wresult, answers, pool,
                   all_engagement_ids, matched_count, enabled_count,
                   summarized_count, event, deal_create_date_unix,
                   all_engagements, output_fields, history, patched,
                   invoicing_start_date, invoicing_end_date, is_projected,
                   months, current_date, returned, page_number, max_pages,
                   all_reviews, sessions>>

\* process_objects: one date field of one object, up to the first GET of
\* fetch_property_history when the object carries the field's history
CD_Object ==
    /\ prog = "cd" /\ pc = "objs"
    /\ last_patch' = <<>>
    /\ \E has \in BOOLEAN :
        IF has
        THEN /\ fn' = "fetch_property_history"
             /\ attempt' = 0
             /\ backoff' = 0
             /\ slept' = 0
             /\ calls' = 0
             /\ hist' = <<>>
             /\ outcome' = NoOutcome
             /\ gen' = IF gen < 2 THEN gen + 1 ELSE gen
             /\ pc' = "http"
             /\ UNCHANGED <<obj, field, offset, otype>>
        ELSE /\ CD_Advance
             /\ UNCHANGED <<fn, attempt, backoff, slept, calls, hist, outcome, gen>>
    /\ UNCHANGED <<prog, script, server, test_mode, url, params, reqlog,
                   collected, processed_count, etype, engagement_ids, errors,
                   clean, pair, props, posts, created, runs, wflow, wresult,
                   answers, pool, all_engagement_ids, matched_count,
                   enabled_count, summarized_count, event, deal_create_date_unix,
                   all_engagements, output_fields, history, patched,
                   invoicing_start_date, invoicing_end_date, is_projected,
                   months, current_date, returned, page_number, max_pages,
                   all_reviews, sessions, result>>

\* fetch_property_history: one pass of the while True loop; the page of a
\* 200 stands for the property's history, its size for the entries
CD_HistoryAttempt ==
    /\ prog = "cd" /\ pc = "http"
    /\ \E r \in EnvResponses : \E j \in Jitters(r.status) :
        /\ script' = ScriptNext
        /\ calls' = calls + 1
        /\ clean' = (clean /\ r.status = 200)
        /\ IF r.status = ConnErr
           THEN /\ outcome' = Raised("request_error", 0)
                /\ hist' = Append(hist, Entry(r, attempt, 0, 0))
                /\ pc' = "ret"
                /\ UNCHANGED <<attempt, slept>>
           ELSE IF r.status = 429
           THEN /\ attempt < MaxHistoryRetries
                /\ attempt' = attempt + 1
                /\ Sleep(CD_WaitRateLimit(r, attempt + 1, j))
                /\ hist' = Append(hist, Entry(r, attempt + 1, j,
                                              CD_WaitRateLimit(r, attempt + 1, j)))
                /\ pc' = "http"
                /\ UNCHANGED outcome
           ELSE IF r.status = 200
           THEN /\ \E entries \in {0, 1} :
                    outcome' = Ok([id |-> obj, size |-> entries, next |-> None])
                /\ hist' = Append(hist, Entry(r, attempt, 0, 0))
                /\ pc' = "ret"
                /\ UNCHANGED <<attempt, slept>>
           ELSE /\ outcome' = Gave("http_error", r.status)
                /\ hist' = Append(hist, Entry(r, attempt, 0, 0))
                /\ pc' = "ret"
                /\ UNCHANGED <<attempt, slept>>
    /\ UNCHANGED <<prog, fn, server, test_mode, backoff, url, params, offset,
                   reqlog, collected, processed_count, etype, engagement_ids,
                   errors, gen, otype, obj, field, pair, props, posts, created,
                   runs, last_patch, wflow, wresult, answers, pool,
                   all_engagement_ids, matched_count, enabled_count,
                   summarized_count, event, deal_create_date_unix,
                   all_engagements, output_fields, history, patched,
                   invoicing_start_date, invoicing_end_date, is_projected,
                   months, current_date, returned, page_number, max_pages,
                   all_reviews, sessions, result>>

\* process_objects: from the return of fetch_property_history through
\* update_datetime_property to the next date field or object
CD_HistoryReturn ==
    /\ prog = "cd" /\ pc = "ret"
    /\ FrameReset
    /\ IF IsRaise(outcome)
       THEN /\ pc' = "done"
            /\ result' = "raised"
            /\ last_patch' = <<>>
            /\ UNCHANGED <<obj, field, offset, otype>>
       ELSE /\ last_patch' = IF outcome.kind = "ok" /\ outcome.page.size > 0
                             THEN <<otype, obj, field>>
                             ELSE <<>>
            /\ CD_Advance
            /\ UNCHANGED result
    /\ UNCHANGED <<prog, fn, script, server, test_mode, outcome, url, params,
                   reqlog, collected, processed_count, etype, engagement_ids,
                   errors, clean, gen, pair, props, posts, created, runs, wflow,
                   wresult, answers, pool, all_engagement_ids, matched_count,
                   enabled_count, summarized_count, event, deal_create_date_unix,
                   all_engagements, output_fields, history, patched,
                   invoicing_start_date, invoicing_end_date, is_projected,
                   months, current_date, returned, page_number, max_pages,
                   all_reviews, sessions>>

----------------------------------------------------------------------------
(* The thread pools of the two main functions *)

EmptyIds == [t \in DOMAIN ENGAGEMENT_TYPES |-> <<>>]

\* a task of a pool: the future's state and the locals of the worker
Task == [state |-> "running", step |-> 0, ids |-> EmptyIds, flags |-> NoFlags]

\* the engagement ids the server holds for one contact, by type
IdLists == {<<>>, <<1>>, <<1, 2>>}
ContactData(a) ==
    [t \in DOMAIN ENGAGEMENT_TYPES |->
        IF t = 1 THEN a ELSE IF t = 2 THEN SubSeq(a, 2, Len(a)) ELSE <<>>]
ContactAnswers == {ContactData(a) : a \in IdLists}

\* what one workflow's processing meets: the detail fetch succeeding or not,
\* the workflow on the server, an exception escaping process_workflow
WorkflowAnswers ==
    {[ok |-> FALSE, flow |-> NoFlow, raises |-> FALSE],
     [ok |-> TRUE, flow |-> NoFlow, raises |-> TRUE]}
    \cup {[ok |-> TRUE, flow |-> f, raises |-> FALSE] :
            f \in {g \in Flows : g.summaryOk => g.contains}}

Tasks == UNION {[1 .. n -> ContactAnswers] : n \in 1 .. MaxTasks}
Workflows == UNION {[1 .. n -> WorkflowAnswers] : n \in 1 .. MaxTasks}

\* a collector that keeps only the ids of the future it handled last
ENG_Overwrite(acc, ids) == ids

\* all_engagement_ids[eng_type].extend(engagement_ids[eng_type]) for each type
ENG_Extend(acc, ids) == [t \in DOMAIN acc |-> acc[t] \o ids[t]]

\* main: executor.submit for the next contact id; the worker thread may run
\* while the later contacts are still being submitted
ENG_MainSubmit ==
    /\ prog = "eng_main" /\ pc \in {"start", "submit"}
    /\ pool' = Append(pool, Task)
    /\ pc' = IF Len(pool) + 1 < Len(answers) THEN "submit" ELSE "collect"
    /\ UNCHANGED <<prog, fn, script, server, test_mode, attempt, backoff, slept,
                   calls, hist, outcome, url, params, offset, reqlog, collected,
                   processed_count, etype, engagement_ids, errors, clean, gen,
                   otype, obj, field, pair, props, posts, created, runs,
                   last_patch, wflow, wresult, answers, all_engagement_ids,
                   matched_count, enabled_count, summarized_count, event,
                   deal_create_date_unix, all_engagements, output_fields,
                   history, patched, invoicing_start_date, invoicing_end_date,
                   is_projected, months, current_date, returned, page_number,
                   max_pages, all_reviews, sessions, result>>

\* a worker thread: one pass of the loop over ENGAGEMENT_TYPES in
\* get_engagement_ids_for_contact (the pagination of one type), and the
\* return after the last type
ENG_Worker ==
    /\ prog = "eng_main"
    /\ \E w \in DOMAIN pool :
        /\ pool[w].state = "running"
        /\ pool' = [pool EXCEPT
              ![w].ids[pool[w].step + 1] = answers[w][pool[w].step + 1],
              ![w].step = pool[w].step + 1,
              ![w].state = IF pool[w].step + 1 = Len(ENGAGEMENT_TYPES)
                           THEN "done" ELSE "running"]
    /\ UNCHANGED <<prog, pc, fn, script, server, test_mode, attempt, backoff,
                   slept, calls, hist, outcome, url, params, offset, reqlog,
                   collected, processed_count, etype, engagement_ids, errors,
                   clean, gen, otype, obj, field, pair, props, posts, created,
                   runs, last_patch, wflow, wresult, answers, all_engagement_ids,
                   matched_count, enabled_count, summarized_count, event,
                   deal_create_date_unix, all_engagements, output_fields,
                   history, patched, invoicing_start_date, invoicing_end_date,
                   is_projected, months, current_date, returned, page_number,
                   max_pages, all_reviews, sessions, result>>

\* main: one pass of the as_completed loop, for any completed future
ENG_MainCollect ==
    /\ prog = "eng_main" /\ pc = "collect"
    /\ \E w \in DOMAIN pool :
        /\ pool[w].state = "done"
        /\ all_engagement_ids' = ENG_Extend(all_engagement_ids, pool[w].ids)
        /\ pool' = [pool EXCEPT ![w].state = "collected"]
        /\ IF \A v \in DOMAIN pool \ {w} : pool[v].state = "collected"
           THEN pc' = "done" /\ result' = "returned"
           ELSE UNCHANGED <<pc, result>>
    /\ UNCHANGED <<prog, fn, script, server, test_mode, attempt, backoff, slept,
                   calls, hist, outcome, url, params, offset, reqlog, collected,
                   processed_count, etype, engagement_ids, errors, clean, gen,
                   otype, obj, field, pair, props, posts, created, runs,
                   last_patch, wflow, wresult, answers, matched_count,
                   enabled_count, summarized_count, event, deal_create_date_unix,
                   all_engagements, output_fields, history, patched,
                   invoicing_start_date, invoicing_end_date, is_projected,
                   months, current_date, returned, page_number, max_pages,
                   all_reviews, sessions>>

\* main: executor.submit for the next workflow; the pool has max_workers = 5
\* threads and MaxTasks stays below that, so every task starts at once
WS_MainSubmit ==
    /\ prog = "wf_main" /\ pc \in {"start", "submit"}
    /\ pool' = Append(pool, Task)
    /\ pc' = IF Len(pool) + 1 < Len(answers) THEN "submit" ELSE "collect"
    /\ UNCHANGED <<prog, fn, script, server, test_mode, attempt, backoff, slept,
                   calls, hist, outcome, url, params, offset, reqlog, collected,
                   processed_count, etype, engagement_ids, errors, clean, gen,
                   otype, obj, field, pair, props, posts, created, runs,
                   last_patch, wflow, wresult, answers, all_engagement_ids,
                   matched_count, enabled_count, summarized_count, event,
                   deal_create_date_unix, all_engagements, output_fields,
                   history, patched, invoicing_start_date, invoicing_end_date,
                   is_projected, months, current_date, returned, page_number,
                   max_pages, all_reviews, sessions, result>>

\* a worker thread: process_workflow up to the return of
\* fetch_workflow_details_v4
WS_WorkerFetch ==
    /\ prog = "wf_main"
    /\ \E w \in DOMAIN pool :
        /\ pool[w].state = "running" /\ pool[w].step = 0
        /\ pool' = [pool EXCEPT
              ![w].step = 1,
              ![w].state = IF answers[w].raises THEN "raised" ELSE "running"]
    /\ UNCHANGED <<prog, pc, fn, script, server, test_mode, attempt, backoff,
                   slept, calls, hist, outcome, url, params, offset, reqlog,
                   collected, processed_count, etype, engagement_ids, errors,
                   clean, gen, otype, obj, field, pair, props, posts, created,
                   runs, last_patch, wflow, wresult, answers, all_engagement_ids,
                   matched_count, enabled_count, summarized_count, event,
                   deal_create_date_unix, all_engagements, output_fields,
                   history, patched, invoicing_start_date, invoicing_end_date,
                   is_projected, months, current_date, returned, page_number,
                   max_pages, all_reviews, sessions, result>>

\* a worker thread: the rest of process_workflow
WS_WorkerFinish ==
    /\ prog = "wf_main"
    /\ \E w \in DOMAIN pool :
        /\ pool[w].state = "running" /\ pool[w].step = 1
        /\ pool' = [pool EXCEPT
              ![w].flags = WS_Flags(answers[w].ok, answers[w].flow),
              ![w].step = 2,
              ![w].state = "done"]
    /\ UNCHANGED <<prog, pc, fn, script, server, test_mode, attempt, backoff,
                   slept, calls, hist, outcome, url, params, offset, reqlog,
                   collected, processed_count, etype, engagement_ids, errors,
                   clean, gen, otype, obj, field, pair, props, posts, created,
                   runs, last_patch, wflow, wresult, answers, all_engagement_ids,
                   matched_count, enabled_count, summarized_count, event,
                   deal_create_date_unix, all_engagements, output_fields,
                   history, patched, invoicing_start_date, invoicing_end_date,
                   is_projected, months, current_date, returned, page_number,
                   max_pages, all_reviews, sessions, result>>

WS_Count(n, flag) == IF flag THEN n + 1 ELSE n

\* main: one pass of the as_completed loop, for any completed future
WS_MainCollect ==
    /\ prog = "wf_main" /\ pc = "collect"
    /\ \E w \in DOMAIN pool :
        /\ pool[w].state \in {"done", "raised"}
        /\ IF pool[w].state = "raised"
           THEN UNCHANGED <<matched_count, enabled_count, summarized_count>>
           ELSE /\ matched_count' = WS_Count(matched_count, pool[w].flags.matched)
                /\ enabled_count' = WS_Count(enabled_count, pool[w].flags.enabled)
                /\ summarized_count' =
                      WS_Count(summarized_count, pool[w].flags.summarized)
        /\ pool' = [pool EXCEPT ![w].state = "collected"]
        /\ IF \A v \in DOMAIN pool \ {w} : pool[v].state = "collected"
           THEN pc' = "done" /\ result' = "returned"
           ELSE UNCHANGED <<pc, result>>
    /\ UNCHANGED <<prog, fn, script, server, test_mode, attempt, backoff, slept,
                   calls, hist, outcome, url, params, offset, reqlog, collected,
                   processed_count, etype, engagement_ids, errors, clean, gen,
                   otype, obj, field, pair, props, posts, created, runs,
                   last_patch, wflow, wresult, answers, all_engagement_ids,
                   event, deal_create_date_unix, all_engagements, output_fields,
                   history, patched, invoicing_start_date, invoicing_end_date,
                   is_projected, months, current_date, returned, page_number,
                   max_pages, all_reviews, sessions>>

----------------------------------------------------------------------------
(* engagements-before-deal-creation.py: main, from its inputs to its output *)

\* Epoch times pass 2^31, so a number is kept as a pair <<h, l>> that stands
\* for h * 10^6 + l with 0 <= l < 10^6.  A time in seconds with its
\* milliseconds is the pair of the same number of milliseconds:
\* <<kiloseconds, milliseconds of the kilosecond>>.
Million == 1000 * 1000
Big(h, l) == <<h, l>>
Less(a, b) == a[1] < b[1] \/ (a[1] = b[1] /\ a[2] < b[2])

\* 10**12
MsThreshold == Big(Million, 0)

\* the last second datetime.utcfromtimestamp accepts (year 9999), as a time
MaxUtc == Big(253402300, 799999)

\* event['inputFields']: deal_id (0: missing) and deal_create_date, which is
\* missing, a text that int() rejects, or an integer
NoDate == [kind |-> "none", value |-> Big(0, 0)]
DealDates ==
    {NoDate, [kind |-> "text", value |-> Big(0, 0)]}
    \cup {[kind |-> "int", value |-> v] :
            v \in {Big(1700, 0), Big(1700000, 500), Big(Million, 0),
                   Big(Million, 1)}}
Events == [deal_id : {None, 1}, deal_create_date : DealDates]
NoEvent == [deal_id |-> None, deal_create_date |-> NoDate]

\* deal_create_date_unix = int(...); if > 10**12: deal_create_date_unix / 1000
\* The result is a time: seconds are scaled up, milliseconds are kept.
ENG_Normalise(v) ==
    IF Less(MsThreshold, v)
    THEN v
    ELSE Big(v[1] * 1000 + (v[2] \div 1000), (v[2] % 1000) * 1000)

\* hs_timestamp as the API returns it: with a fraction
\* ('2023-11-14T22:13:20.499Z'), without one, or absent (None)
Timestamp(fmt, ks, s, millis) ==
    [fmt |-> fmt, ks |-> ks, s |-> s, millis |-> millis]
NoTimestamp == Timestamp("none", 0, 0, 0)
Timestamps ==
    {Timestamp("plain", 1699999, 999, 0), Timestamp("plain", 1700000, 0, 0),
     Timestamp("frac", 1700000, 0, 499), Timestamp("frac", 1700000, 0, 500),
     NoTimestamp}

\* datetime.strptime(ts, '%Y-%m-%dT%H:%M:%S.%fZ').timestamp(), on ValueError
\* the same with '%Y-%m-%dT%H:%M:%SZ'; None raises TypeError
Unparsed == <<>>
Strptime(ts) ==
    IF ts.fmt = "frac" THEN Big(ts.ks, ts.s * 1000 + ts.millis)
    ELSE IF ts.fmt = "plain" THEN Big(ts.ks, ts.s * 1000)
    ELSE Unparsed

\* the engagements batch_get_engagement_details returns, in the order of
\* ENGAGEMENT_TYPES
EngagementKinds == <<"call", "meeting", "email">>
Engagements ==
    [engagement_type : {"call", "meeting", "email"}, timestamp : Timestamps]
KindIndex(k) == CHOOSE i \in DOMAIN EngagementKinds : EngagementKinds[i] = k
EngagementLists ==
    {l \in SeqsUpTo(Engagements, MaxEngagements) :
        \A i \in 1 .. (Len(l) - 1) :
            KindIndex(l[i].engagement_type) <= KindIndex(l[i + 1].engagement_type)}

\* a filter that also keeps the engagements made at the deal's creation time
ENG_BeforeOrAt(t, d) == ~Less(d, t)

\* engagement_timestamp < deal_create_date_unix
ENG_Before(t, d) == Less(t, d)

\* json.dumps(value, indent=2)
json_dumps(value) == [json |-> value]

\* datetime.utcfromtimestamp(t).strftime('%Y-%m-%d %H:%M:%S UTC'): the time to
\* the second
Strftime(t) == [utc |-> Big(t[1], t[2] \div 1000)]

default_output ==
    [engagements_json |-> "",
     engagements_all_json |-> "",
     deal_create_date_formatted |-> "",
     count_calls_before_deal_creation |-> 0,
     count_meetings_before_deal_creation |-> 0,
     count_emails_before_deal_creation |-> 0,
     count_engagements_before_deal_creation |-> 0,
     error_message |-> ""]

\* nothing returned yet
NoOutput == [none |-> TRUE]

\* the locals of the filter loop
NoneFiltered ==
    [filtered |-> <<>>, count_calls |-> 0, count_meetings |-> 0,
     count_emails |-> 0, count_total |-> 0]

\* one pass of `for engagement in all_engagements`; an exception of the pass
\* is logged and the engagement left out
ENG_FilterOne(e, d, acc) ==
    LET t == Strptime(e.timestamp)
        k == e.engagement_type
    IN  IF t = Unparsed THEN acc
        ELSE IF ENG_Before(t, d)
        THEN [filtered |-> Append(acc.filtered, e),
              count_calls |-> acc.count_calls + (IF k = "call" THEN 1 ELSE 0),
              count_meetings |->
                  acc.count_meetings + (IF k = "meeting" THEN 1 ELSE 0),
              count_emails |-> acc.count_emails + (IF k = "email" THEN 1 ELSE 0),
              count_total |-> acc.count_total + 1]
        ELSE acc

RECURSIVE ENG_FilterLoop(_, _, _, _)
ENG_FilterLoop(engs, i, d, acc) ==
    IF i > Len(engs) THEN acc
    ELSE ENG_FilterLoop(engs, i + 1, d, ENG_FilterOne(engs[i], d, acc))

\* return {'outputFields': default_output} with its error_message set
ENG_ReturnDefault(message) ==
    /\ output_fields' = [default_output EXCEPT !.error_message = message]
    /\ pc' = "done"
    /\ result' = "returned"

\* main: the checks of the inputs, the conversion of the deal date and its
\* first formatting for the log
ENG_MainValidate ==
    /\ prog = "eng_result" /\ pc = "start"
    /\ IF event.deal_id = None
       THEN /\ ENG_ReturnDefault("Deal ID is missing.")
            /\ UNCHANGED deal_create_date_unix
       ELSE IF event.deal_create_date.kind = "none"
       THEN /\ ENG_ReturnDefault("Deal creation date is missing.")
            /\ UNCHANGED deal_create_date_unix
       ELSE IF event.deal_create_date.kind = "text"
       THEN /\ ENG_ReturnDefault("Invalid deal creation date format.")
            /\ UNCHANGED deal_create_date_unix
       ELSE /\ deal_create_date_unix' = ENG_Normalise(event.deal_create_date.value)
            /\ IF Less(MaxUtc, deal_create_date_unix')
               THEN ENG_ReturnDefault("year is out of range")
               ELSE pc' = "fetch" /\ UNCHANGED <<output_fields, result>>
    /\ UNCHANGED <<prog, fn, script, server, test_mode, attempt, backoff, slept,
                   calls, hist, outcome, url, params, offset, reqlog, collected,
                   processed_count, etype, engagement_ids, errors, clean, gen,
                   otype, obj, field, pair, props, posts, created, runs,
                   last_patch, wflow, wresult, answers, pool, all_engagement_ids,
                   matched_count, enabled_count, summarized_count, event,
                   all_engagements, history, patched, invoicing_start_date,
                   invoicing_end_date, is_projected, months, current_date,
                   returned, page_number, max_pages, all_reviews, sessions>>

\* main: from get_associated_company_id to the last batch_get_engagement_details:
\* either a call raises (a failed request, no company, no contacts) or the
\* engagements are there
ENG_MainFetch ==
    /\ prog = "eng_result" /\ pc = "fetch"
    /\ \/ /\ ENG_ReturnDefault("No contacts associated with company")
          /\ UNCHANGED all_engagements
       \/ /\ \E engs \in EngagementLists : all_engagements' = engs
          /\ pc' = "filter"
          /\ UNCHANGED <<output_fields, result>>
    /\ UNCHANGED <<prog, fn, script, server, test_mode, attempt, backoff, slept,
                   calls, hist, outcome, url, params, offset, reqlog, collected,
                   processed_count, etype, engagement_ids, errors, clean, gen,
                   otype, obj, field, pair, props, posts, created, runs,
                   last_patch, wflow, wresult, answers, pool, all_engagement_ids,
                   matched_count, enabled_count, summarized_count, event,
                   deal_create_date_unix, history, patched, invoicing_start_date,
                   invoicing_end_date, is_projected, months, current_date,
                   returned, page_number, max_pages, all_reviews, sessions>>

\* main: the filter loop and the return of the output fields
ENG_MainOutput ==
    /\ prog = "eng_result" /\ pc = "filter"
    /\ LET acc == ENG_FilterLoop(all_engagements, 1, deal_create_date_unix,
                                 NoneFiltered)
       IN  output_fields' =
               [engagements_filtered_json |-> json_dumps(acc.filtered),
                engagements_all_json |-> json_dumps(all_engagements),
                deal_create_date_formatted |-> Strftime(deal_create_date_unix),
                count_calls_before_deal_creation |-> acc.count_calls,
                count_meetings_before_deal_creation |-> acc.count_meetings,
                count_emails_before_deal_creation |-> acc.count_emails,
                count_engagements_before_deal_creation |-> acc.count_total,
                error_message |-> ""]
    /\ pc' = "done"
    /\ result' = "returned"
    /\ UNCHANGED <<prog, fn, script, server, test_mode, attempt, backoff, slept,
                   calls, hist, outcome, url, params, offset, reqlog, collected,
                   processed_count, etype, engagement_ids, errors, clean, gen,
                   otype, obj, field, pair, props, posts, created, runs,
                   last_patch, wflow, wresult, answers, pool, all_engagement_ids,
                   matched_count, enabled_count, summarized_count, event,
                   deal_create_date_unix, all_engagements, history, patched,
                   invoicing_start_date, invoicing_end_date, is_projected,
                   months, current_date, returned, page_number, max_pages,
                   all_reviews, sessions>>

----------------------------------------------------------------------------
(* custom-date-to-custom-datetime.py: from a property history to the PATCH *)

\* A date is a day number, a point in time (an ISO timestamp) a day and the
\* milliseconds of that day.
MsPerDay == 24 * 3600 * 1000
SixAM == 6 * 3600 * 1000
Stamp(day, ms) == [day |-> day, ms |-> ms]
NoStamp == Stamp(0 - 1, 0)
NotATimestamp == Stamp(0 - 2, 0)

\* a version of the history: its 'value' is a date ('2024-03-11') or a text
\* that is no date (day -1), its 'timestamp' the time of the change, when
\* the key is there
NoDay == 0 - 1
Days == {10, 11}
Versions ==
    [value : Days \cup {NoDay},
     timestamp : {NoStamp} \cup {Stamp(d, 1) : d \in Days}]
Histories == SeqsUpTo(Versions, MaxHistory)

\* for version in history: if 'timestamp' in version: ... break
RECURSIVE FirstTimestamp(_)
FirstTimestamp(h) ==
    IF h = <<>> THEN NoStamp
    ELSE IF Head(h).timestamp # NoStamp THEN Head(h).timestamp
    ELSE FirstTimestamp(Tail(h))

\* determine_timestamp_format(history): None (NoStamp) for no history, the
\* value itself when it is no date (NotATimestamp), the change timestamp
\* when it falls on the value's date, else the date at 06:00 UTC
determine_timestamp_format(h) ==
    IF h = <<>> THEN NoStamp
    ELSE LET latest_value == Head(h).value
             latest_change == FirstTimestamp(h)
         IN  IF latest_value = NoDay THEN NotATimestamp
             ELSE IF latest_change # NoStamp /\ latest_change.day = latest_value
             THEN latest_change
             ELSE Stamp(latest_value, SixAM)

\* int(datetime.fromisoformat(timestamp).timestamp() * 1000), None on a
\* ValueError; 0 stands for None, as `if not unix_timestamp` takes both alike
convert_to_unix_timestamp(t) ==
    IF t = NotATimestamp THEN 0 ELSE t.day * MsPerDay + t.ms

\* process_objects: fetch_property_history for a date field of an object,
\* answered 200 with the history
CD_FetchHistory ==
    /\ prog = "cd_backfill" /\ pc = "start"
    /\ outcome' = Ok(determine_timestamp_format(history))
    /\ pc' = "update"
    /\ UNCHANGED <<prog, fn, script, server, test_mode, attempt, backoff, slept,
                   calls, hist, url, params, offset, reqlog, collected,
                   processed_count, etype, engagement_ids, errors, clean, gen,
                   otype, obj, field, pair, props, posts, created, runs,
                   last_patch, wflow, wresult, answers, pool, all_engagement_ids,
                   matched_count, enabled_count, summarized_count, event,
                   deal_create_date_unix, all_engagements, output_fields,
                   history, patched, invoicing_start_date, invoicing_end_date,
                   is_projected, months, current_date, returned, page_number,
                   max_pages, all_reviews, sessions, result>>

\* process_objects: if last_change_timestamp: update_datetime_property(...),
\* which PATCHes unless the timestamp does not convert
CD_Update ==
    /\ prog = "cd_backfill" /\ pc = "update"
    /\ LET unix_timestamp == convert_to_unix_timestamp(outcome.page)
       IN  patched' = IF outcome.page # NoStamp /\ unix_timestamp # 0
                      THEN Append(patched, unix_timestamp)
                      ELSE patched
    /\ outcome' = NoOutcome
    /\ pc' = "done"
    /\ result' = "returned"
    /\ UNCHANGED <<prog, fn, script, server, test_mode, attempt, backoff, slept,
                   calls, hist, url, params, offset, reqlog, collected,
                   processed_count, etype, engagement_ids, errors, clean, gen,
                   otype, obj, field, pair, props, posts, created, runs,
                   last_patch, wflow, wresult, answers, pool, all_engagement_ids,
                   matched_count, enabled_count, summarized_count, event,
                   deal_create_date_unix, all_engagements, output_fields,
                   history, invoicing_start_date, invoicing_end_date,
                   is_projected, months, current_date, returned, page_number,
                   max_pages, all_reviews, sessions>>

----------------------------------------------------------------------------
(* renewal-deals-and-custom-mrr/months-in-service-period.py *)

\* A Unix timestamp in milliseconds passes 2^31: it is kept as the day since
\* the epoch and the milliseconds of that day.  An input field is absent
\* (None), a text int() rejects, or such a timestamp.
MO_Input(kind, day, ms) == [kind |-> kind, day |-> day, ms |-> ms]
MO_None == MO_Input("none", 0, 0)
MO_Text == MO_Input("text", 0, 0)
LastMs == 24 * 3600 * 1000 - 1000

\* 2022-02-14, 2022-02-15 (1644883200000), 2022-12-31 23:59:59
\* (1672531199000), 2023-12-31 23:59:59 (1704067199000), 2024-02-29
MO_Starts ==
    {MO_None, MO_Text, MO_Input("int", 19038, 0), MO_Input("int", 19357, LastMs)}
MO_Ends ==
    {MO_None, MO_Text, MO_Input("int", 19037, 0), MO_Input("int", 19038, 0),
     MO_Input("int", 19357, LastMs)}
MO_Projected ==
    {MO_None, MO_Text, MO_Input("int", 19722, LastMs), MO_Input("int", 19782, 0)}
MO_Events ==
    [deal_invoicing_period_start_date : MO_Starts,
     deal_invoicing_period_end_date : MO_Ends,
     projected_deal_invoicing_period_end_date : MO_Projected]

\* a datetime; None is the datetime of year 0
Datetime(y, m, d, ms) == [year |-> y, month |-> m, day |-> d, ms |-> ms]
NoDatetime == Datetime(0, 0, 0, 0)

\* the proleptic Gregorian date of a day since 1970-01-01, as
\* datetime.utcfromtimestamp computes it
CivilFromDays(days, ms) ==
    LET z == days + 719468
        era == z \div 146097
        doe == z - era * 146097
        yoe == (doe - (doe \div 1460) + (doe \div 36524) - (doe \div 146096))
                   \div 365
        doy == doe - (365 * yoe + (yoe \div 4) - (yoe \div 100))
        mp == (5 * doy + 2) \div 153
        d == doy - ((153 * mp + 2) \div 5) + 1
        m == IF mp < 10 THEN mp + 3 ELSE mp - 9
        y == yoe + era * 400 + (IF m <= 2 THEN 1 ELSE 0)
    IN  Datetime(y, m, d, ms)

\* convert_unix_to_datetime: datetime.utcfromtimestamp(int(timestamp) / 1000),
\* None on ValueError / TypeError
convert_unix_to_datetime(timestamp) ==
    IF timestamp.kind = "int"
    THEN CivilFromDays(timestamp.day, timestamp.ms)
    ELSE NoDatetime

\* a > b on datetimes
DatetimeAfter(a, b) ==
    LET ka == <<a.year * 12 + a.month, a.day, a.ms>>
        kb == <<b.year * 12 + b.month, b.day, b.ms>>
    IN  \/ ka[1] > kb[1]
        \/ ka[1] = kb[1] /\ ka[2] > kb[2]
        \/ ka[1] = kb[1] /\ ka[2] = kb[2] /\ ka[3] > kb[3]

\* the truth value of an input field: None is false, a text or a (non-zero)
\* number true
MO_Given(timestamp) == timestamp.kind # "none"

\* a selection that never marks the end date as projected
MO_NeverProjected(end, projected) == "NO"

\* is_projected as the if / elif / else sets it
MO_IsProjected(end, projected) ==
    IF MO_Given(end) THEN "NO"
    ELSE IF MO_Given(projected) THEN "YES"
    ELSE "NO"

\* invoicing_end_date as the if / elif / else sets it
MO_EndDate(end, projected) ==
    IF MO_Given(end) THEN convert_unix_to_datetime(end)
    ELSE IF MO_Given(projected) THEN convert_unix_to_datetime(projected)
    ELSE NoDatetime

\* datetime(date.year, date.month, 1)
FirstOfMonth(date) == Datetime(date.year, date.month, 1, 0)

\* current_date += relativedelta(months=1)
MO_AddMonth(date) ==
    IF date.month = 12
    THEN [date EXCEPT !.year = @ + 1, !.month = 1]
    ELSE [date EXCEPT !.month = @ + 1]

\* a loop that stops before the month of the end date
MO_ContinueBefore(current, end) == DatetimeAfter(end, current)

\* while current_date <= end_date
MO_Continue(current, end) == ~DatetimeAfter(current, end)

\* current_date.strftime('%Y-%m')
MO_Strftime(date) == [yyyy |-> date.year, mm |-> date.month]

\* return {'error': error_message}
MO_ReturnError(message) ==
    /\ returned' = [error |-> message]
    /\ pc' = "done"
    /\ result' = "returned"

\* main: the inputs, the conversion of the start and the choice of the end date
MO_Select ==
    /\ prog = "months" /\ pc = "start"
    /\ invoicing_start_date'
          = convert_unix_to_datetime(event.deal_invoicing_period_start_date)
    /\ invoicing_end_date'
          = MO_EndDate(event.deal_invoicing_period_end_date,
                       event.projected_deal_invoicing_period_end_date)
    /\ is_projected'
          = MO_IsProjected(event.deal_invoicing_period_end_date,
                           event.projected_deal_invoicing_period_end_date)
    /\ pc' = "validate"
    /\ UNCHANGED <<prog, fn, script, server, test_mode, attempt, backoff, slept,
                   calls, hist, outcome, url, params, offset, reqlog, collected,
                   processed_count, etype, engagement_ids, errors, clean, gen,
                   otype, obj, field, pair, props, posts, created, runs,
                   last_patch, wflow, wresult, answers, pool, all_engagement_ids,
                   matched_count, enabled_count, summarized_count, event,
                   deal_create_date_unix, all_engagements, output_fields,
                   history, patched, months, current_date, returned, page_number,
                   max_pages, all_reviews, sessions, result>>

\* main: the validation of the dates, then the entry into generate_month_list
MO_Validate ==
    /\ prog = "months" /\ pc = "validate"
    /\ IF invoicing_start_date = NoDatetime
       THEN /\ MO_ReturnError("Invalid invoicing period start date input.")
            /\ UNCHANGED <<months, current_date>>
       ELSE IF invoicing_end_date = NoDatetime
       THEN /\ MO_ReturnError("Invalid invoicing period end date input.")
            /\ UNCHANGED <<months, current_date>>
       ELSE IF DatetimeAfter(invoicing_start_date, invoicing_end_date)
       THEN /\ MO_ReturnError("Invoicing period start date is after the end date.")
            /\ UNCHANGED <<months, current_date>>
       ELSE /\ months' = <<>>
            /\ current_date' = FirstOfMonth(invoicing_start_date)
            /\ pc' = "loop"
            /\ UNCHANGED <<returned, result>>
    /\ UNCHANGED <<prog, fn, script, server, test_mode, attempt, backoff, slept,
                   calls, hist, outcome, url, params, offset, reqlog, collected,
                   processed_count, etype, engagement_ids, errors, clean, gen,
                   otype, obj, field, pair, props, posts, created, runs,
                   last_patch, wflow, wresult, answers, pool, all_engagement_ids,
                   matched_count, enabled_count, summarized_count, event,
                   deal_create_date_unix, all_engagements, output_fields,
                   history, patched, invoicing_start_date, invoicing_end_date,
                   is_projected, page_number, max_pages, all_reviews, sessions>>

\* generate_month_list: the test of the while loop and one pass of its body
MO_Loop ==
    /\ prog = "months" /\ pc = "loop"
    /\ IF MO_Continue(current_date, FirstOfMonth(invoicing_end_date))
       THEN /\ months' = Append(months, MO_Strftime(current_date))
            /\ current_date' = MO_AddMonth(current_date)
            /\ UNCHANGED pc
       ELSE /\ pc' = "return"
            /\ UNCHANGED <<months, current_date>>
    /\ UNCHANGED <<prog, fn, script, server, test_mode, attempt, backoff, slept,
                   calls, hist, outcome, url, params, offset, reqlog, collected,
                   processed_count, etype, engagement_ids, errors, clean, gen,
                   otype, obj, field, pair, props, posts, created, runs,
                   last_patch, wflow, wresult, answers, pool, all_engagement_ids,
                   matched_count, enabled_count, summarized_count, event,
                   deal_create_date_unix, all_engagements, output_fields,
                   history, patched, invoicing_start_date, invoicing_end_date,
                   is_projected, returned, page_number, max_pages, all_reviews,
                   sessions, result>>

\* main: the join, the length and the return of the output fields
MO_Return ==
    /\ prog = "months" /\ pc = "return"
    /\ returned' = [outputFields |->
                       [invoicing_period_months |-> months,
                        invoicing_period_length |-> Len(months),
                        is_projected |-> is_projected]]
    /\ pc' = "done"
    /\ result' = "returned"
    /\ UNCHANGED <<prog, fn, script, server, test_mode, attempt, backoff, slept,
                   calls, hist, outcome, url, params, offset, reqlog, collected,
                   processed_count, etype, engagement_ids, errors, clean, gen,
                   otype, obj, field, pair, props, posts, created, runs,
                   last_patch, wflow, wresult, answers, pool, all_engagement_ids,
                   matched_count, enabled_count, summarized_count, event,
                   deal_create_date_unix, all_engagements, output_fields,
                   history, patched, invoicing_start_date, invoicing_end_date,
                   is_projected, months, current_date, page_number, max_pages,
                   all_reviews, sessions>>

----------------------------------------------------------------------------
(* research-linkedin-isolated.py, research-main-new.py *)

\* research-main-new.py builds a session whose adapter re-sends a request
\* by itself; research-linkedin-isolated.py calls requests.get
SC_HasAdapter == prog \in {"scrape_main", "omr"}

\* Retry(total=5, backoff_factor=1, status_forcelist=[500, 502, 503, 504])
SC_total == 5
SC_backoff_factor == 1
SC_status_forcelist == {500, 502, 503, 504}

\* Retry.get_backoff_time after n consecutive failed exchanges
SC_BackoffTime(n) ==
    IF n <= 1 THEN 0 ELSE Seconds(SC_backoff_factor * Pow(2, n - 1))

\* Retry.is_retry with the defaults the constructor call leaves in place:
\* a forced status, or a 429 that carries Retry-After while retries remain
SC_IsRetry(r, a) ==
    \/ r.status \in SC_status_forcelist
    \/ (a < SC_total /\ r.status = 429 /\ r.retryAfter # NoHeader)

\* Retry.sleep: the Retry-After header if there is one, else the backoff
SC_RetrySleep(r, n) ==
    IF r.status # ConnErr /\ r.retryAfter # NoHeader
    THEN Seconds(r.retryAfter)
    ELSE SC_BackoffTime(n)

\* response.text of a 200: a document, or nothing at all
SC_Bodies == {"html", "blank"}
SC_Body(text, p) == [id |-> p, size |-> 0, next |-> None, text |-> text]

\* the answers ScraperAPI gives; the page loop sees a narrower variety
SC_EnvResponses ==
    IF prog = "omr"
    THEN {[status |-> s, retryAfter |-> NoHeader] : s \in {200, 404, 500}}
    ELSE EnvResponses

SC_StartCall ==
    /\ fn' = "scrape_with_scraperapi"
    /\ attempt' = 0
    /\ backoff' = 0
    /\ slept' = 0
    /\ calls' = 0
    /\ hist' = <<>>
    /\ outcome' = NoOutcome
    /\ gen' = IF gen < 2 THEN gen + 1 ELSE gen

\* a caller of scrape_with_scraperapi: the call
SC_Start ==
    /\ prog \in {"scrape_li", "scrape_main"} /\ pc = "start"
    /\ SC_StartCall
    /\ pc' = "http"
    /\ UNCHANGED <<prog, script, server, test_mode, url, params, offset, reqlog,
                   collected, processed_count, etype, engagement_ids, errors,
                   clean, otype, obj, field, pair, props, posts, created, runs,
                   last_patch, wflow, wresult, answers, pool, all_engagement_ids,
                   matched_count, enabled_count, summarized_count, event,
                   deal_create_date_unix, all_engagements, output_fields,
                   history, patched, invoicing_start_date, invoicing_end_date,
                   is_projected, months, current_date, returned, page_number,
                   max_pages, all_reviews, sessions, result>>

\* scrape_with_scraperapi: one exchange with ScraperAPI, then either the
\* adapter's next try or the branch of the function that returns
SC_Attempt ==
    /\ prog \in {"scrape_li", "scrape_main", "omr"} /\ pc = "http"
    /\ \E r \in SC_EnvResponses, text \in SC_Bodies :
        /\ (r.status # 200 => text = "blank")
        /\ calls' = calls + 1
        /\ clean' = (clean /\ r.status = 200)
        /\ IF SC_HasAdapter /\ (r.status = ConnErr \/ SC_IsRetry(r, attempt))
           THEN IF attempt < SC_total
                THEN /\ Sleep(SC_RetrySleep(r, attempt + 1))
                     /\ hist' = Append(hist, Entry(r, attempt, 0,
                                           SC_RetrySleep(r, attempt + 1)))
                     /\ attempt' = NextAttempt(attempt)
                     /\ pc' = "http"
                     /\ UNCHANGED outcome
                ELSE /\ hist' = Append(hist, Entry(r, attempt, 0, 0))
                     /\ outcome' = IF r.status = ConnErr
                                   THEN Gave("request_error", 0)
                                   ELSE Gave("max_retries", r.status)
                     /\ pc' = "ret"
                     /\ UNCHANGED <<attempt, slept>>
           ELSE /\ hist' = Append(hist, Entry(r, attempt, 0, 0))
                /\ outcome' = IF r.status = ConnErr
                              THEN Gave("request_error", 0)
                              ELSE IF r.status = 200
                              THEN Ok(SC_Body(text, page_number))
                              ELSE Gave("http_error", r.status)
                /\ pc' = "ret"
                /\ UNCHANGED <<attempt, slept>>
    /\ UNCHANGED <<prog, fn, script, server, test_mode, backoff, url, params,
                   offset, reqlog, collected, processed_count, etype,
                   engagement_ids, errors, gen, otype, obj, field, pair, props,
                   posts, created, runs, last_patch, wflow, wresult, answers,
                   pool, all_engagement_ids, matched_count, enabled_count,
                   summarized_count, event, deal_create_date_unix,
                   all_engagements, output_fields, history, patched,
                   invoicing_start_date, invoicing_end_date, is_projected,
                   months, current_date, returned, page_number, max_pages,
                   all_reviews, sessions, result>>

\* a caller of scrape_with_scraperapi: it has the return value
SC_Return ==
    /\ prog \in {"scrape_li", "scrape_main"} /\ pc = "ret"
    /\ pc' = "done"
    /\ result' = "returned"
    /\ UNCHANGED <<prog, fn, script, server, test_mode, attempt, backoff, slept,
                   calls, hist, outcome, url, params, offset, reqlog, collected,
                   processed_count, etype, engagement_ids, errors, clean, gen,
                   otype, obj, field, pair, props, posts, created, runs,
                   last_patch, wflow, wresult, answers, pool, all_engagement_ids,
                   matched_count, enabled_count, summarized_count, event,
                   deal_create_date_unix, all_engagements, output_fields,
                   history, patched, invoicing_start_date, invoicing_end_date,
                   is_projected, months, current_date, returned, page_number,
                   max_pages, all_reviews, sessions>>

\* extract_reviews_from_omr_page: the reviews of page p of the product, none
\* on a page past the last one
OMR_Reviews(p) ==
    IF p \in 1 .. Len(server)
    THEN [i \in 1 .. Size(server[p], OMR_PageReviews) |-> <<p, i>>]
    ELSE <<>>

\* page_content: None, or the body of the 200
OMR_Content(o) == IF o.kind = "ok" THEN o.page.text ELSE "none"

\* if page_content: of a string or None
OMR_Truthy(o) == o.kind = "ok" /\ o.page.text # "blank"

\* a loop that goes on after a page without reviews
OMR_BreakNever(reviews) == FALSE

\* if reviews: ... else: break
OMR_BreakWithout(reviews) == reviews = <<>>

\* scrape_omr_reviews: all_reviews = [], the for loop starts
OMR_Start ==
    /\ prog = "omr" /\ pc = "start"
    /\ all_reviews' = <<>>
    /\ page_number' = 1
    /\ pc' = "loop"
    /\ UNCHANGED <<prog, fn, script, server, test_mode, attempt, backoff, slept,
                   calls, hist, outcome, url, params, offset, reqlog, collected,
                   processed_count, etype, engagement_ids, errors, clean, gen,
                   otype, obj, field, pair, props, posts, created, runs,
                   last_patch, wflow, wresult, answers, pool, all_engagement_ids,
                   matched_count, enabled_count, summarized_count, event,
                   deal_create_date_unix, all_engagements, output_fields,
                   history, patched, invoicing_start_date, invoicing_end_date,
                   is_projected, months, current_date, returned, max_pages,
                   sessions, result>>

\* scrape_omr_reviews: the head of the for loop, then the page's scrape
OMR_Loop ==
    /\ prog = "omr" /\ pc = "loop"
    /\ IF page_number > max_pages
       THEN /\ pc' = "done"
            /\ result' = "returned"
            /\ UNCHANGED <<fn, attempt, backoff, slept, calls, hist, outcome, gen,
                           reqlog>>
       ELSE /\ reqlog' = Append(reqlog, page_number)
            /\ SC_StartCall
            /\ pc' = "http"
            /\ UNCHANGED result
    /\ UNCHANGED <<prog, script, server, test_mode, url, params, offset,
                   collected, processed_count, etype, engagement_ids, errors,
                   clean, otype, obj, field, pair, props, posts, created, runs,
                   last_patch, wflow, wresult, answers, pool, all_engagement_ids,
                   matched_count, enabled_count, summarized_count, event,
                   deal_create_date_unix, all_engagements, output_fields,
                   history, patched, invoicing_start_date, invoicing_end_date,
                   is_projected, months, current_date, returned, page_number,
                   max_pages, all_reviews, sessions>>

\* scrape_omr_reviews: the loop body after the scrape of the page
OMR_Page ==
    /\ prog = "omr" /\ pc = "ret"
    /\ FrameReset
    /\ collected' = Append(collected, [page |-> page_number,
                                        content |-> OMR_Content(outcome),
                                        reviews |-> IF OMR_Truthy(outcome)
                                                    THEN OMR_Reviews(page_number)
                                                    ELSE <<>>])
    /\ IF OMR_Truthy(outcome)
       THEN IF ~OMR_BreakWithout(OMR_Reviews(page_number))
            THEN /\ all_reviews' = all_reviews \o OMR_Reviews(page_number)
                 /\ page_number' = page_number + 1
                 /\ pc' = "loop"
                 /\ UNCHANGED result
            ELSE /\ pc' = "done"
                 /\ result' = "returned"
                 /\ UNCHANGED <<all_reviews, page_number>>
       ELSE /\ page_number' = page_number + 1
            /\ pc' = "loop"
            /\ UNCHANGED <<all_reviews, result>>
    /\ UNCHANGED <<prog, fn, script, server, test_mode, outcome, url, params,
                   offset, reqlog, processed_count, etype, engagement_ids,
                   errors, clean, gen, otype, obj, field, pair, props, posts,
                   created, runs, last_patch, wflow, wresult, answers, pool,
                   all_engagement_ids, matched_count, enabled_count,
                   summarized_count, event, deal_create_date_unix,
                   all_engagements, output_fields, history, patched,
                   invoicing_start_date, invoicing_end_date, is_projected,
                   months, current_date, returned, max_pages, sessions>>

----------------------------------------------------------------------------

(* The specification *)

Progs == {"tp", "eng_company", "eng_contacts", "eng_ids", "eng_batch",
          "wf_all", "wf_process", "img", "cd", "eng_main", "wf_main",
          "eng_result", "cd_backfill", "cd_create", "months", "scrape_li",
          "scrape_main", "omr"}

StartPc(p) == IF p = "tp" THEN "loop" ELSE "start"

Init ==
    /\ prog \in Progs
    /\ pc = StartPc(prog)
    /\ fn = "none"
    /\ script \in (IF prog \in {"tp", "eng_company"} THEN Scripts ELSE {<<>>})
    /\ server \in (IF prog \in {"eng_company", "wf_process"} THEN Documents
                   ELSE IF prog \in {"eng_main", "wf_main", "eng_result",
                                     "cd_backfill", "cd_create", "months",
                                     "scrape_li", "scrape_main"}
                   THEN {<<"empty">>}
                   ELSE IF prog = "tp" THEN Servers \cup LongServers
                   ELSE IF prog = "cd"
                   THEN {s \in Servers : Len(s) <= CD_MaxPages}
                   ELSE Servers)
    /\ test_mode \in (IF prog = "tp" THEN BOOLEAN ELSE {TEST_MODE})
    /\ attempt = 0
    /\ backoff = 0
    /\ slept = 0
    /\ calls = 0
    /\ hist = <<>>
    /\ outcome = NoOutcome
    /\ url = None
    /\ params = NoParams
    /\ offset = None
    /\ reqlog = <<>>
    /\ collected = <<>>
    /\ processed_count = 0
    /\ etype = 0
    /\ engagement_ids = <<>>
    /\ errors = 0
    /\ clean = TRUE
    /\ gen = 0
    /\ otype = 0
    /\ obj = 0
    /\ field = 0
    /\ pair = 0
    /\ props \in (IF prog = "cd" THEN {{}, CD_Range(CD_Pairs)}
                  ELSE IF prog = "cd_create"
                  THEN {{}, {CD_Pairs[1]}, CD_Range(CD_Pairs)}
                  ELSE {{}})
    /\ posts = <<>>
    /\ created = <<>>
    /\ runs = 0
    /\ last_patch = <<>>
    /\ wflow \in (IF prog = "wf_process" THEN Flows ELSE {NoFlow})
    /\ wresult = NoFlags
    /\ answers \in (IF prog = "eng_main" THEN Tasks
                    ELSE IF prog = "wf_main" THEN Workflows ELSE {<<>>})
    /\ pool = <<>>
    /\ all_engagement_ids = EmptyIds
    /\ matched_count = 0
    /\ enabled_count = 0
    /\ summarized_count = 0
    /\ event \in (IF prog = "eng_result" THEN Events
                  ELSE IF prog = "months" THEN MO_Events
                  ELSE {NoEvent})
    /\ deal_create_date_unix = Big(0, 0)
    /\ all_engagements = <<>>
    /\ output_fields = NoOutput
    /\ history \in (IF prog = "cd_backfill" THEN Histories ELSE {<<>>})
    /\ patched = <<>>
    /\ invoicing_start_date = NoDatetime
    /\ invoicing_end_date = NoDatetime
    /\ is_projected = "NO"
    /\ months = <<>>
    /\ current_date = NoDatetime
    /\ returned = [none |-> TRUE]
    /\ page_number = 0
    /\ max_pages \in (IF prog = "omr" THEN 0 .. OMR_MaxPages ELSE {0})
    /\ all_reviews = <<>>
    /\ sessions = (IF prog = "tp" THEN <<TP_NoSession>> ELSE <<>>)
    /\ result = "running"

Next ==
    \/ TP_Loop
    \/ TP_Attempt
    \/ TP_ProcessPage
    \/ TP_Restart
    \/ ENG_Attempt
    \/ ENG_PostAttempt
    \/ ENG_CompanyCall
    \/ ENG_CompanyReturn
    \/ ENG_ContactsStart
    \/ ENG_ContactsLoop
    \/ ENG_ContactsPage
    \/ ENG_IdsStart
    \/ ENG_IdsType
    \/ ENG_IdsLoop
    \/ ENG_IdsPage
    \/ ENG_BatchStart
    \/ ENG_BatchLoop
    \/ ENG_BatchPage
    \/ WS_AllStart
    \/ WS_AllLoop
    \/ WS_AllAttempt
    \/ WS_ProcessStart
    \/ WS_DetailsAttempt
    \/ WS_ProcessReturn
    \/ IMG_Start
    \/ IMG_Request
    \/ CD_Start
    \/ CD_Create
    \/ CD_Rerun
    \/ CD_Type
    \/ CD_PageRequest
    \/ CD_Object
    \/ CD_HistoryAttempt
    \/ CD_HistoryReturn
    \/ ENG_MainSubmit
    \/ ENG_Worker
    \/ ENG_MainCollect
    \/ WS_MainSubmit
    \/ WS_WorkerFetch
    \/ WS_WorkerFinish
    \/ WS_MainCollect
    \/ ENG_MainValidate
    \/ ENG_MainFetch
    \/ ENG_MainOutput
    \/ CD_FetchHistory
    \/ CD_Update
    \/ MO_Select
    \/ MO_Validate
    \/ MO_Loop
    \/ MO_Return
    \/ SC_Start
    \/ SC_Attempt
    \/ SC_Return
    \/ OMR_Start
    \/ OMR_Loop
    \/ OMR_Page

Spec == Init /\ [][Next]_vars

\* months-in-service-period.py run on its own: main is straight-line code
\* around one loop, so it keeps taking steps until it returns
MO_Init == Init /\ prog = "months"
MO_Next ==
    \/ MO_Select
    \/ MO_Validate
    \/ MO_Loop
    \/ MO_Return
MO_Spec == MO_Init /\ [][MO_Next]_vars /\ WF_vars(MO_Next)

----------------------------------------------------------------------------
(* Properties *)

Last(q) == q[Len(q)]
StatusesOf(h) == [i \in DOMAIN h |-> h[i].status]
AllRateLimited(h) == h # <<>> /\ \A i \in DOMAIN h : h[i].status = 429
Raising == {"make_request_with_retries", "make_request", "make_post_request"}

\* C1: when every attempt of make_request_with_retries (cap 5) or of
\* make_request / make_post_request (cap 3) is answered with 429, the function
\* issues exactly cap HTTP calls, then raises its max-retries failure, and
\* issues no call after that: below the cap it is still in its loop, at the
\* cap it has raised, and the cap is never passed.
C1_RetryCap ==
    (fn \in Raising /\ AllRateLimited(hist)) =>
        LET cap == IF fn = "make_request_with_retries" THEN 5 ELSE 3
        IN  /\ calls = Len(hist)
            /\ calls <= cap
            /\ (calls < cap) => (pc = "http" /\ outcome = NoOutcome)
            /\ (calls = cap) => (pc = "ret" /\ outcome = Raised("max_retries", 0))

C1_Witness ==
    /\ fn = "make_request_with_retries"
    /\ AllRateLimited(hist)
    /\ calls = 5
    /\ outcome = Raised("max_retries", 0)

\* C3: when the first response to make_request_with_retries, make_request or
\* make_post_request has a status that is neither 2xx, 429 nor 5xx, the
\* function raises after exactly one HTTP call, without sleeping and without
\* a second attempt, and the error carries the status.
C3_OtherStatusFatal ==
    (/\ fn \in Raising
     /\ hist # <<>>
     /\ hist[1].status \notin {ConnErr, 429}
     /\ ~(200 <= hist[1].status /\ hist[1].status < 300)
     /\ ~(500 <= hist[1].status /\ hist[1].status < 600)) =>
        /\ pc = "ret"
        /\ calls = 1
        /\ Len(hist) = 1
        /\ slept = 0
        /\ outcome = Raised("http_error", hist[1].status)

C3_Witness ==
    /\ fn = "make_post_request"
    /\ Len(hist) = 1
    /\ hist[1].status = 404
    /\ outcome = Raised("http_error", 404)

\* C5: against a server of three pages A, B, C that answers every request
\* with 200, process_contacts_in_batches issues exactly three page requests,
\* with no cursor, the cursor of A and the cursor of B, each cursor being the
\* one the page before returned, and writes A, B, C in this order, each once.
C5_PageOrder ==
    (prog = "tp" /\ Len(server) = 3 /\ clean) =>
        /\ Len(reqlog) <= 3
        /\ reqlog = SubSeq(<<None, 2, 3>>, 1, Len(reqlog))
        /\ collected = SubSeq(<<1, 2, 3>>, 1, Len(collected))
        /\ Len(collected) <= Len(reqlog)
        /\ Len(reqlog) <= Len(collected) + 1
        /\ \A i \in 2 .. Len(reqlog) :
              reqlog[i] = Page(collected[i - 1], params.limit).next
        /\ (pc = "done") =>
              /\ reqlog = <<None, 2, 3>>
              /\ collected = <<1, 2, 3>>
              /\ result = "returned"

C5_Witness ==
    /\ prog = "tp" /\ Len(server) = 3 /\ clean
    /\ pc = "done"
    /\ collected = <<1, 2, 3>>

Bursts == {Burst(k) : k \in 0 .. MaxBurst}
Plan == StatusesOf(hist) \o script
RequestedPage ==
    IF fn = "make_request_with_retries"
    THEN (IF offset = None THEN 1 ELSE offset)
    ELSE url

\* C7 as stated: for every k >= 0, k responses 429 followed by a 200 make
\* make_request_with_retries and make_request return the page of that 200,
\* having slept the sum of the k delays.
C7_AnyBurstReturns ==
    (/\ fn \in {"make_request_with_retries", "make_request"}
     /\ pc = "ret"
     /\ Plan \in Bursts) =>
        /\ outcome.kind = "ok"
        /\ outcome.page.id = RequestedPage
        /\ slept = SumWaits(hist)

\* C7: for every k below the attempt cap (k <= 4 in make_request_with_retries,
\* k <= 2 in make_request), k responses 429 followed by a 200 make the
\* function return the page of that 200 after k + 1 calls, having slept
\* exactly the sum of the k delays it computed for the 429 attempts.
C7_BurstBelowCapReturns ==
    (/\ fn \in {"make_request_with_retries", "make_request"}
     /\ pc = "ret"
     /\ Plan \in Bursts
     /\ Len(Plan) - 1 < (IF fn = "make_request_with_retries" THEN 5 ELSE 3)) =>
        /\ script = <<>>
        /\ calls = Len(Plan)
        /\ outcome.kind = "ok"
        /\ outcome.page.id = RequestedPage
        /\ slept = SumWaits(hist)
        /\ \A i \in DOMAIN hist : (hist[i].status = 429) => (hist[i].wait > 0)

C7_Witness ==
    /\ fn = "make_request_with_retries"
    /\ pc = "ret"
    /\ StatusesOf(hist) = Burst(4)
    /\ outcome.kind = "ok"
    /\ slept > Seconds(50)

\* C2: fetch_property_history ends after a number of GET calls bounded by a
\* configured attempt cap; 5 is the largest cap any retry loop of the
\* repository configures.
C2_HistoryAttemptCap ==
    (fn = "fetch_property_history") => (calls <= 5)

Retrying ==
    Raising \cup {"fetch_all_workflows_v4", "fetch_workflow_details_v4"}

\* C4: in every retrying fetcher a 5xx response is followed by a backoff sleep
\* and a further attempt of the same request, or by the max-retries failure
\* when it answered the last attempt; it is never immediately fatal.
C4_ServerErrorRetried ==
    (fn \in Retrying /\ hist # <<>> /\ IsServerError(Last(hist).status)) =>
        /\ Last(hist).wait > 0
        /\ pc = "http" \/ outcome.kind = "max_retries"

Paginating == {"tp", "cd", "wf_all", "eng_contacts"}

\* C6: a pagination loop issues no page request after a 200 that carries no
\* next cursor: in the requests of one fetch session of
\* process_contacts_in_batches, of the per-type loop of process_objects, of
\* fetch_all_workflows_v4 and of get_company_contacts, every page requested
\* before the last request carries a next cursor, so the request of a page
\* without one is the last of its session.
C6_StopsOnMissingCursor ==
    (prog \in Paginating) =>
        \A i \in 1 .. (Len(reqlog) - 1) : PageAt(reqlog[i], 1).next # None

C6_Witness ==
    /\ prog = "cd"
    /\ pc = "type"
    /\ otype = 2
    /\ Len(server) = 2
    /\ reqlog = <<None, 2>>

\* C8: when a page of a multi-page fetch fails fatally after earlier pages
\* were collected, fetch_all_workflows_v4, get_engagement_ids_for_contact,
\* get_company_contacts and fetch_images report the failure to the caller
\* instead of returning what they collected.
C8_NoPartialSuccess ==
    (/\ prog \in {"wf_all", "eng_ids", "eng_contacts", "img"}
     /\ pc = "done"
     /\ collected # <<>>
     /\ errors > 0) => (result = "raised")

\* C9: when make_request or the per-page loop of fetch_all_workflows_v4 gets a
\* 429 and goes on to a next attempt, the url, the query parameters, the
\* cursor and the records collected from earlier pages are unchanged and the
\* attempt counter has grown by exactly one.
C9_RetrySameRequest ==
    [][(/\ fn \in {"make_request", "fetch_all_workflows_v4"}
        /\ pc = "http"
        /\ calls' = calls + 1
        /\ Last(hist').status = 429
        /\ pc' = "http") =>
            /\ url' = url
            /\ params' = params
            /\ offset' = offset
            /\ reqlog' = reqlog
            /\ collected' = collected
            /\ engagement_ids' = engagement_ids
            /\ attempt' = attempt + 1]_vars

C9_Witness ==
    /\ fn = "fetch_all_workflows_v4"
    /\ pc = "http"
    /\ collected = <<1>>
    /\ url = 2
    /\ attempt = 2
    /\ Len(hist) = 1
    /\ hist[1].status = 429

Count(q, x) == Cardinality({i \in DOMAIN q : q[i] = x})
SameMultiset(p, q) ==
    /\ Len(p) = Len(q)
    /\ \A x \in {p[i] : i \in DOMAIN p} : Count(p, x) = Count(q, x)
Collected(w) == w \in DOMAIN pool /\ pool[w].state = "collected"

\* the ids of type t the server holds for the collected contacts among 1 .. n
RECURSIVE Gathered(_, _)
Gathered(t, n) ==
    IF n = 0 THEN <<>>
    ELSE Gathered(t, n - 1) \o (IF Collected(n) THEN answers[n][t] ELSE <<>>)

\* the collected workflows whose processing sets the flag
Flagged(flag) ==
    {w \in DOMAIN answers :
        /\ Collected(w)
        /\ ~answers[w].raises
        /\ WS_Flags(answers[w].ok, answers[w].flow)[flag]}

\* C10: the pool workers write no accumulator: at every moment, whatever the
\* interleaving of the workers and the order in which their futures complete
\* and are collected, all_engagement_ids holds per type exactly the multiset
\* of the ids of the contacts collected so far, and matched_count,
\* enabled_count and summarized_count count exactly the collected workflows
\* with that flag; so the final values are the same for every order.
C10_PoolIsolation ==
    /\ (prog = "eng_main") =>
          \A t \in DOMAIN ENGAGEMENT_TYPES :
              SameMultiset(all_engagement_ids[t], Gathered(t, Len(answers)))
    /\ (prog = "wf_main") =>
          /\ matched_count = Cardinality(Flagged("matched"))
          /\ enabled_count = Cardinality(Flagged("enabled"))
          /\ summarized_count = Cardinality(Flagged("summarized"))

C10_Witness ==
    /\ prog = "eng_main"
    /\ pc = "done"
    /\ Len(all_engagement_ids[1]) = 3
    /\ all_engagement_ids[1] # Gathered(1, Len(answers))

\* the delay the retry policy prescribes after the first attempt is answered
\* with 429 and Retry-After h: h * multiplier ^ 1, the multiplier being
\* RETRY_BACKOFF, BACKOFF_FACTOR or the 2.5 of make_request_with_retries
ScaledDelay(f, h) ==
    IF f = "make_request" THEN Seconds(h * RETRY_BACKOFF)
    ELSE IF f = "fetch_workflow_details_v4" THEN Seconds(h * BACKOFF_FACTOR)
    ELSE (Seconds(h) * 5) \div 2

\* C11: when make_request, fetch_workflow_details_v4 or
\* make_request_with_retries gets one 429 carrying Retry-After: 2 and then a
\* 200, it has made exactly two HTTP calls and returns, and the sleep before
\* the retry is at least 2 seconds and is the header value scaled by the
\* policy multiplier (plus the jitter).
C11_HeaderScaledRetry ==
    (/\ fn \in {"make_request", "fetch_workflow_details_v4",
                "make_request_with_retries"}
     /\ pc = "ret"
     /\ StatusesOf(hist) = <<429, 200>>
     /\ hist[1].retryAfter = 2) =>
        /\ calls = 2
        /\ outcome.kind = "ok"
        /\ hist[1].wait >= Seconds(2)
        /\ slept = hist[1].wait
        /\ hist[1].wait - hist[1].jitter = ScaledDelay(fn, 2)

\* C12: when attempt number a (counted from 1) of make_request or
\* make_post_request is answered with 429, the sleep before the next attempt
\* is r * 2 ^ a + j seconds, r being the Retry-After header value when the
\* header is present and 2 otherwise, 0 <= j <= 1; fetch_property_history
\* sleeps by the same formula with r = 1 when the header is absent; and the
\* time slept is the sum of these waits.
C12_BackoffFormula ==
    (fn \in {"make_request", "make_post_request", "fetch_property_history"}) =>
        /\ slept = SumWaits(hist)
        /\ \A a \in DOMAIN hist :
              (hist[a].status = 429) =>
                  LET r == IF hist[a].retryAfter # NoHeader THEN hist[a].retryAfter
                           ELSE IF fn = "fetch_property_history" THEN 1
                           ELSE 2
                  IN  /\ hist[a].attempt = a
                      /\ hist[a].jitter >= 0
                      /\ hist[a].jitter <= TicksPerSecond
                      /\ hist[a].wait = Seconds(r * Pow(2, a)) + hist[a].jitter

C12_Witness ==
    /\ fn = "fetch_property_history"
    /\ Len(hist) = 3
    /\ hist[2].status = 429
    /\ hist[2].retryAfter = NoHeader
    /\ hist[2].jitter = TicksPerSecond
    /\ hist[2].wait = Seconds(4) + TicksPerSecond
    /\ hist[3].status = 200

\* C13: with TEST_MODE enabled process_contacts_in_batches issues no page
\* request in any state where processed_count >= TEST_LIMIT, and below the
\* limit the loop head always issues the next one; with TEST_MODE disabled
\* the loop head issues the next page request whatever processed_count is,
\* so the limit never stops the loop.
C13_RecordLimit ==
    [][prog = "tp" =>
        /\ (test_mode /\ processed_count >= TEST_LIMIT)
               => Len(reqlog') <= Len(reqlog)
        /\ (pc = "loop" /\ (~test_mode \/ processed_count < TEST_LIMIT))
               => reqlog' = Append(reqlog, offset)]_vars

\* a TEST_MODE run over seven full pages stopped after the sixth, at 300 records
C13_Witness ==
    /\ prog = "tp" /\ test_mode /\ pc = "done" /\ result = "returned"
    /\ Len(server) = TP_MaxPages
    /\ processed_count = TEST_LIMIT
    /\ Len(reqlog) = 6

\* the output fields the docstring of the script tells the user to define
DocumentedOutputFields ==
    {"engagements_filtered_json", "engagements_all_json",
     "deal_create_date_formatted", "count_calls_before_deal_creation",
     "count_meetings_before_deal_creation",
     "count_emails_before_deal_creation",
     "count_engagements_before_deal_creation"}

\* C14: every value main(event) of engagements-before-deal-creation returns
\* carries all the documented output fields, on the success, early-return
\* and exception paths alike.
C14_OutputFields ==
    (prog = "eng_result" /\ pc = "done")
        => DocumentedOutputFields \subseteq DOMAIN output_fields

\* the time of the timestamp is before the deal date, both in milliseconds
StrictlyEarlier(ts, date) ==
    LET t == IF ts.fmt = "none" THEN <<>>
             ELSE <<ts.ks, ts.s * 1000 + ts.millis>>
        d == IF date[1] > Million \/ (date[1] = Million /\ date[2] > 0)
             THEN date
             ELSE <<date[1] * 1000 + (date[2] \div 1000), (date[2] % 1000) * 1000>>
    IN  /\ t # <<>>
        /\ (t[1] < d[1] \/ (t[1] = d[1] /\ t[2] < d[2]))
EarlierThanDeal(e) == StrictlyEarlier(e.timestamp, event.deal_create_date.value)

\* C15: on the success path engagements_filtered_json holds exactly the
\* fetched engagements whose hs_timestamp is strictly earlier than the deal
\* creation time (taken as milliseconds when above 10^12, as seconds
\* otherwise), in the fetched order, and count_engagements_before_deal_creation
\* is the length of that list.
C15_FilteredBeforeDeal ==
    (prog = "eng_result" /\ pc = "done" /\ output_fields.error_message = "")
        => /\ output_fields.engagements_filtered_json
                = [json |-> SelectSeq(all_engagements, EarlierThanDeal)]
           /\ output_fields.count_engagements_before_deal_creation
                = Len(SelectSeq(all_engagements, EarlierThanDeal))

\* a deal created at 1700000000.500 given in milliseconds: of an engagement
\* at .499 and one at .500 only the first is kept
C15_Witness ==
    /\ prog = "eng_result" /\ pc = "done" /\ output_fields.error_message = ""
    /\ event.deal_create_date.value = <<1700000, 500>>
    /\ Len(all_engagements) = 2
    /\ all_engagements[1].timestamp.millis = 499
    /\ all_engagements[2].timestamp.millis = 500
    /\ output_fields.count_engagements_before_deal_creation = 1

\* C16: process_workflow returns matched = True exactly when the details it
\* fetched contain one of the specified properties.
C16_MatchedIffContains ==
    (prog = "wf_process" /\ pc = "done" /\ errors = 0 /\ server = <<"short">>)
        => (wresult.matched <=> wflow.contains)

\* C17: whenever process_objects issues a PATCH, its value is the millisecond
\* conversion of the change timestamp of the most recent history entry
\* (stated for the histories whose most recent entry has a timestamp).
C17_PatchIsLastChange ==
    (prog = "cd_backfill" /\ patched # <<>> /\ history[1].timestamp # NoStamp)
        => Last(patched)
             = history[1].timestamp.day * MsPerDay + history[1].timestamp.ms

\* a sequence without a repetition
NoRepeat(q) == \A i, j \in DOMAIN q : q[i] = q[j] => i = j

\* C18: the create POST is issued only after property_exists reported the
\* property absent; over any number of runs of the creation phase a server
\* that keeps what was created has each (object type, date field) created at
\* most once, and a property POSTed once is not POSTed again after a GET that
\* was answered; the creation calls all come before the first backfill
\* request: none is issued after the creation loop, and during it no page
\* and no history was requested and nothing PATCHed.
C18_CreateOnce ==
    (prog \in {"cd", "cd_create"}) =>
        /\ \A i \in DOMAIN posts : posts[i].status # 200
        /\ NoRepeat(created)
        /\ \A i, j \in DOMAIN posts :
              (i < j /\ posts[i].pair = posts[j].pair) => posts[j].status = 429
        /\ (pc \in {"start", "create", "created"})
              => (reqlog = <<>> /\ gen = 0 /\ last_patch = <<>>)
        /\ (reqlog # <<>> \/ gen > 0) => (pc \notin {"start", "create", "created"})

\* two runs of the creation phase on an empty portal: the four properties
\* were created in the first run, the second run POSTed again only after a
\* rate-limited check
C18_Witness ==
    /\ prog = "cd_create" /\ pc = "done" /\ runs = MaxRuns
    /\ Len(created) = Len(CD_Pairs)
    /\ Len(posts) > Len(CD_Pairs)
    /\ \A i \in DOMAIN posts : posts[i].run = 1 <=> i <= Len(CD_Pairs)

\* the calendar month of the days the inputs use, as a count of months
KnownMonth(day) ==
    CASE day = 19037 -> 2022 * 12 + 1
      [] day = 19038 -> 2022 * 12 + 1
      [] day = 19357 -> 2022 * 12 + 11
      [] day = 19722 -> 2023 * 12 + 11
      [] day = 19782 -> 2024 * 12 + 1
YearMonth(k) == [yyyy |-> k \div 12, mm |-> (k % 12) + 1]
EndUsed ==
    IF event.deal_invoicing_period_end_date.kind # "none"
    THEN event.deal_invoicing_period_end_date
    ELSE event.projected_deal_invoicing_period_end_date

\* the output fields hold the months from the start month through the end
\* month, one after the other, and their number
MonthListRight ==
    (prog = "months" /\ pc = "done" /\ "outputFields" \in DOMAIN returned) =>
        LET list == returned.outputFields.invoicing_period_months
            first == KnownMonth(event.deal_invoicing_period_start_date.day)
            last == KnownMonth(EndUsed.day)
        IN  /\ returned.outputFields.invoicing_period_length = last - first + 1
            /\ Len(list) = last - first + 1
            /\ \A i \in DOMAIN list : list[i] = YearMonth(first + i - 1)

\* C19: for a start not after the end, main returns the months 'yyyy-mm' from
\* the month of the start date through the month of the end date, consecutive
\* and increasing, and invoicing_period_length = 12 * (end.year - start.year)
\* + (end.month - start.month) + 1; the loop of generate_month_list ends.
C19_MonthList ==
    /\ []MonthListRight
    /\ (prog = "months" /\ pc = "loop") ~> (pc = "done")

\* 2022-02-15 to the projected end 2024-02-29: 25 months, 2022-02 .. 2024-02
C19_Witness ==
    /\ prog = "months" /\ pc = "done" /\ "outputFields" \in DOMAIN returned
    /\ event.deal_invoicing_period_start_date.day = 19038
    /\ event.deal_invoicing_period_end_date.kind = "none"
    /\ event.projected_deal_invoicing_period_end_date.day = 19782
    /\ returned.outputFields.invoicing_period_length = 25
    /\ returned.outputFields.invoicing_period_months[1] = [yyyy |-> 2022, mm |-> 2]
    /\ returned.outputFields.invoicing_period_months[25] = [yyyy |-> 2024, mm |-> 2]

\* C20: the end date used is the actual invoicing period end when that input
\* is provided and the projected end otherwise; is_projected is 'YES' exactly
\* when the projected end was used, 'NO' when the actual end was and when
\* neither is provided, in which case main returns an error and no
\* outputFields; the is_projected returned is the one chosen.
C20_EndDateSelection ==
    (prog = "months" /\ pc # "start") =>
        LET end == event.deal_invoicing_period_end_date
            projected == event.projected_deal_invoicing_period_end_date
        IN  /\ (end.kind # "none")
                  => /\ invoicing_end_date = convert_unix_to_datetime(end)
                     /\ is_projected = "NO"
            /\ (end.kind = "none" /\ projected.kind # "none")
                  => /\ invoicing_end_date = convert_unix_to_datetime(projected)
                     /\ is_projected = "YES"
            /\ (end.kind = "none" /\ projected.kind = "none")
                  => /\ is_projected = "NO"
                     /\ pc = "done" => DOMAIN returned = {"error"}
            /\ (pc = "done" /\ "outputFields" \in DOMAIN returned)
                  => returned.outputFields.is_projected = is_projected

\* no actual end, a projected end of 2023-12-31: main returns is_projected 'YES'
C20_Witness ==
    /\ prog = "months" /\ pc = "done" /\ "outputFields" \in DOMAIN returned
    /\ event.deal_invoicing_period_end_date.kind = "none"
    /\ event.projected_deal_invoicing_period_end_date.day = 19722
    /\ returned.outputFields.is_projected = "YES"

----------------------------------------------------------------------------
(* C21: scrape_with_scraperapi *)

\* C21: in both scripts scrape_with_scraperapi returns the body exactly when
\* the response is a 200 and None otherwise, never raises, and a 429 ends
\* the call at once: nothing is slept after it and no request follows it.
C21_ScrapeAnswersOnce ==
    prog \in {"scrape_li", "scrape_main"} =>
        /\ \A k \in 1 .. Len(hist) :
              hist[k].status = 429 =>
                  /\ hist[k].wait = 0
                  /\ k = Len(hist)
                  /\ pc # "http"
        /\ pc \in {"ret", "done"} =>
              /\ ~outcome.raised
              /\ (outcome.kind = "ok") <=> (Last(hist).status = 200)
              /\ outcome.kind # "ok" => Failed(outcome)

----------------------------------------------------------------------------
(* C22: scrape_omr_reviews *)

\* a page whose scrape gave content
C22_Scraped(e) == e.content = "html"

RECURSIVE C22_Concat(_)
C22_Concat(q) == IF q = <<>> THEN <<>> ELSE Head(q).reviews \o C22_Concat(Tail(q))

\* C22: scrape_omr_reviews scrapes at most max_pages pages, the pages
\* 1, 2, ... in increasing order; a scraped page without reviews is the last
\* page it scrapes, a page whose scrape failed is skipped and followed by the
\* next page, and the list it builds is the reviews of the pages in page order.
C22_PageLoop ==
    prog = "omr" =>
        /\ Len(reqlog) <= max_pages
        /\ \A k \in 1 .. Len(reqlog) : reqlog[k] = k
        /\ \A k \in 1 .. Len(collected) :
              /\ collected[k].page = k
              /\ (C22_Scraped(collected[k]) /\ collected[k].reviews = <<>>) =>
                    (k = Len(collected) /\ Len(reqlog) = k /\ pc = "done")
              /\ ~C22_Scraped(collected[k]) => collected[k].reviews = <<>>
        /\ all_reviews = C22_Concat(collected)
        /\ pc = "done" =>
              /\ Len(collected) = Len(reqlog)
              /\ \/ Len(reqlog) = max_pages
                 \/ /\ collected # <<>>
                    /\ C22_Scraped(Last(collected))
                    /\ Last(collected).reviews = <<>>

\* a run of three pages: reviews, a failed scrape, a page without reviews
C22_Witness ==
    /\ prog = "omr" /\ pc = "done" /\ max_pages = OMR_MaxPages
    /\ Len(collected) = 3
    /\ collected[1].reviews # <<>>
    /\ ~C22_Scraped(collected[2])
    /\ C22_Scraped(collected[3]) /\ collected[3].reviews = <<>>
    /\ all_reviews = collected[1].reviews

----------------------------------------------------------------------------
(* C23: a run of all-touchpoints from scratch *)

\* C23: no cursor, attempt counter or backoff survives from one run of the
\* all-touchpoints fetch to the next: every run's first request carries no
\* cursor and starts with attempt 0 and the initial backoff, two runs against
\* the same server send the same first request, and when both obtain a first
\* page it is the same page, the first page of the dataset.
C23_RestartReproducible ==
    prog = "tp" =>
        /\ reqlog # <<>> => reqlog[1] = None
        /\ \A i \in 1 .. Len(sessions) :
              /\ sessions[i].requested =>
                    sessions[i].request =
                        [params |-> [limit |-> TP_limit, after |-> None],
                         attempt |-> 0, backoff |-> Seconds(TP_backoff)]
              /\ sessions[i].obtained => sessions[i].page = Page(1, TP_limit)
              /\ \A j \in 1 .. Len(sessions) :
                    /\ (sessions[i].requested /\ sessions[j].requested) =>
                          sessions[i].request = sessions[j].request
                    /\ (sessions[i].obtained /\ sessions[j].obtained) =>
                          sessions[i].page = sessions[j].page

\* a second run has obtained its first page after a first run that went
\* past its first page and ended holding a cursor
C23_Witness ==
    /\ prog = "tp"
    /\ Len(sessions) = 2
    /\ sessions[1].obtained /\ sessions[1].kept
    /\ sessions[2].obtained /\ sessions[2].page.size > 0

----------------------------------------------------------------------------
(* C24: get_engagement_ids_for_contact absorbs the errors of a type *)

\* the number of first-page requests in a log of page requests
RECURSIVE C24_Starts(_)
C24_Starts(q) ==
    IF q = <<>> THEN 0
    ELSE (IF Head(q) = 1 THEN 1 ELSE 0) + C24_Starts(Tail(q))

RECURSIVE C24_Kept(_, _)
C24_Kept(ids, t) == IF t = 0 THEN 0 ELSE Len(ids[t]) + C24_Kept(ids, t - 1)

\* C24: get_engagement_ids_for_contact never raises: an error while paging a
\* type ends that type only, the pages read for the type before the error
\* are kept, every later type is still fetched, and the dict returned has a
\* key for each entry of ENGAGEMENT_TYPES.
C24_ErrorsAbsorbed ==
    prog = "eng_ids" =>
        /\ result # "raised"
        /\ pc \in {"type", "done"} =>
              /\ DOMAIN engagement_ids = 1 .. Len(ENGAGEMENT_TYPES)
              /\ C24_Starts(reqlog) = etype - 1
              /\ errors <= etype - 1
              /\ C24_Kept(engagement_ids, Len(ENGAGEMENT_TYPES)) + errors
                    = Len(reqlog)
              /\ \A t \in 1 .. Len(ENGAGEMENT_TYPES) :
                    /\ engagement_ids[t] = [i \in 1 .. Len(engagement_ids[t]) |-> i]
                    /\ t >= etype => engagement_ids[t] = <<>>
        /\ pc = "done" =>
              /\ result = "returned"
              /\ etype = Len(ENGAGEMENT_TYPES) + 1

\* the first type failed on its second page and kept its first page, and
\* the function returned after fetching the other types
C24_Witness ==
    /\ prog = "eng_ids" /\ pc = "done" /\ result = "returned"
    /\ errors = 1
    /\ Len(server) >= 2
    /\ engagement_ids[1] = <<1>>
    /\ engagement_ids[2] = [i \in 1 .. Len(server) |-> i]
    /\ engagement_ids[3] = [i \in 1 .. Len(server) |-> i]

====
